---- MODULE Spec2Model ----
\* A model of the db3 paged B+Tree of explodes/binq: the pager's page cache and
\* file, the leaf and branch node views, Table.Find/Start, the cursor and
\* insertStatement.Execute with its leaf split, root split, updateMaximum and
\* branch split.
\*
\* A page is a record.  Leaf and branch views overlay the same bytes:
\*   isLeaf, isRoot, parentPointer   nodeHeader
\*   numCells                        leafNodeHeader.numCells / branchNodeHeader.numCells
\*   link                            leafNodeHeader.nextLeaf / branchNodeHeader.rightChild
\*                                   (both are the uint32 at byte offset 12)
\*   cellData                        leafNode.cellData, as leaf cells
\*   cells                           branchNode.cells, cells 0..BranchMaxCells
\* Cells past numCells keep whatever was last written there (the code never
\* clears them), and the code reads some of them, so they are part of the page.
\* The only page whose interpretation changes is the root page when a root leaf
\* splits; LeafBytesAsBranchCells gives the branch cells that the leaf's bytes
\* then are.
EXTENDS Integers, Sequences, FiniteSets, TLC

\* ---------------------------------------------------------------- bounds
\* keys inserted are 1..MaxKey
MaxKey == 7
\* the smallest number of cells per leaf: tables are opened with a dataSize
\* that gives LeafMaxCells or LeafMaxCells + 1 cells per leaf
LeafMaxCells == 2
\* cells per branch: the BRANCH_MAX_KEYS override read by getMaxNumCells
BranchMaxCells == 2
\* recursion depth after which a descent or an upward propagation is taken to
\* never return
MaxDepth == 6
\* no Insert starts once the pager holds this many pages
MaxPages == 10

Keys == 1..MaxKey

\* ---------------------------------------------------------------- sizes
PageSize == 4096
\* unsafe.Sizeof(KeyType(0))
keySize == 4
\* unsafe.Sizeof(leafNodeHeader{}): bool, bool, uint32, uint16, uint32, aligned
leafNodeHeaderSize == 16
leafNodeMaxCellData == PageSize - leafNodeHeaderSize
\* the largest dataSize with which a leaf holds cap cells
DataSizeFor(cap) == (leafNodeMaxCellData \div cap) - keySize
\* the dataSize values tables are opened with
DataSizes == {DataSizeFor(cap) : cap \in LeafMaxCells..(LeafMaxCells + 1)}
\* indexes of the leaf cells a page is modelled with
CellIndexes == 0..LeafMaxCells

\* A value is dataSize bytes.  The model keeps two 32-bit words of it: id, the
\* word at byte offset 0, and w, the word at byte offset 8*BranchMaxCells (the
\* bytes that are cells[BranchMaxCells].key when the page is read as a branch);
\* every other byte of the values inserted is 0.
BigWord == MaxKey + 1
ZeroValue == [id |-> 0, w |-> 0]
\* The values callers insert are made from the key, as newSentinelValue makes
\* them: NewValue(k) goes with the first Insert of k, OtherValue(k) with an
\* Insert of k when k is already stored.  Odd keys carry a large word w, even
\* keys a zero one.
NewValue(k) == [id |-> 2 * k, w |-> IF k % 2 = 1 THEN BigWord ELSE 0]
OtherValue(k) == [id |-> 2 * k + 1, w |-> IF k % 2 = 1 THEN 0 ELSE BigWord]

ZeroLeafCell == [key |-> 0, value |-> ZeroValue]
ZeroBranchCell == [child |-> 0, key |-> 0]

\* new(Page): 4096 zero bytes
ZeroPage ==
  [isLeaf |-> FALSE, isRoot |-> FALSE, parentPointer |-> 0, numCells |-> 0, link |-> 0,
   cellData |-> [i \in CellIndexes |-> ZeroLeafCell],
   cells |-> [i \in 0..BranchMaxCells |-> ZeroBranchCell]]

\* the key returned where the code panics instead of returning a key
PanicKey == 0 - 1

Max2(a, b) == IF a >= b THEN a ELSE b

\* ---------------------------------------------------------------- state
VARIABLES
  pages,       \* Pager.pages: the non-nil cache slots, page index -> page
  cacheLen,    \* len(Pager.pages)
  numPages,    \* Pager.numPages
  fileLength,  \* Pager.fileLength, in pages (set by OpenPager, never updated)
  disk,        \* the file: page index -> page last written there
  opened,      \* Open has returned a table
  dataSize,    \* Table.dataSize
  result,      \* outcome of the last operation
  log,         \* page events of the last operation, in order
  last,        \* the last Insert: key, value, whether the key was stored before
  stored,      \* history: key -> value of the first successful Insert of the key
  dupAccepted, \* history: some Insert of an already stored key returned success
  handedOut,   \* history: what each GetUnusedPageNum call returned, and when
  heldCursor,  \* the Cursor the caller holds
  ret,         \* what the last call on the cursor or on the pager returned
  firstError,  \* history: the first error the cursor recorded
  record,      \* the bytes of the record a matcher runs on
  answer,      \* what the last call on a matcher, jumper or upscaler returned
  file,        \* the memory-mapped key-value File: its length and its memory
  puts         \* history of the File: the Puts made, and what the last call returned

vars == <<pages, cacheLen, numPages, fileLength, disk, opened, dataSize, result, log, last,
          stored, dupAccepted, handedOut, heldCursor, ret, firstError, record, answer,
                 file, puts>>

\* ---------------------------------------------------------------- errors
\* An error is its text, cut into tokens at ": " and ", "; nil is no text.
Nil == <<>>
\* errors.New
errorsNew(msg) == <<msg>>

\* wrap (errors.Wrap): nil for nil, otherwise "msg: err"
wrap(err, msg) == IF err = Nil THEN Nil ELSE <<msg, ":">> \o err

\* multiError2.Error: "msg (multiple errors): err1, err2"
multiError2(msg, err1, err2) ==
  <<msg, "(multiple errors)", ":">> \o err1 \o <<",">> \o err2

\* wrap2 that reports the second error before the first
wrap2_swapped(err1, err2, msg) ==
  IF err1 = Nil /\ err2 = Nil THEN Nil
  ELSE IF err2 = Nil THEN wrap(err1, msg)
  ELSE IF err1 = Nil THEN wrap(err2, msg)
  ELSE multiError2(msg, err2, err1)

\* wrap2
wrap2(err1, err2, msg) ==
  IF err1 = Nil /\ err2 = Nil THEN Nil
  ELSE IF err2 = Nil THEN wrap(err1, msg)
  ELSE IF err1 = Nil THEN wrap(err2, msg)
  ELSE multiError2(msg, err1, err2)

\* multiError3.Error: "msg (multiple errors): err1, err2, err3"
multiError3(msg, err1, err2, err3) ==
  <<msg, "(multiple errors)", ":">> \o err1 \o <<",">> \o err2 \o <<",">> \o err3

\* wrap3
wrap3(err1, err2, err3, msg) ==
  IF err1 = Nil /\ err2 = Nil /\ err3 = Nil THEN Nil
  ELSE IF err1 = Nil THEN wrap2(err2, err3, msg)
  ELSE IF err2 = Nil THEN wrap2(err1, err3, msg)
  ELSE IF err3 = Nil THEN wrap2(err1, err2, msg)
  ELSE multiError3(msg, err1, err2, err3)

\* ---------------------------------------------------------------- system calls
\* The outcome of the system calls of one GetPage or Flush: which call fails
\* ("none", "seek", "read", "write", "sync"; "short" is a write that
\* transfers part of the page and reports no error) and the errno it fails with.
ReadErrnos == {"EIO", "EINTR"}
WriteErrnos == {"EIO"}
OkIO == [fails |-> "none", errno |-> ""]
ReadOutcomes == {OkIO} \cup [fails : {"seek", "read"}, errno : ReadErrnos]
FlushOutcomes ==
  {OkIO, [fails |-> "short", errno |-> ""]}
    \cup [fails : {"seek", "write", "sync"}, errno : WriteErrnos]

\* The machine an operation runs on: the pager, the outcomes of the system
\* calls to come (none listed: they succeed), the error the last pager call
\* returned, the operation's log, its Flush calls, and its outcome so far
\* ("ok", "dup" for the duplicate-key error, "invalid" for the value-length
\* error, "error" for a returned pager error, "panic" for a Go panic or a
\* recursion without end).
MachineWith(io) ==
  [pages |-> pages, cacheLen |-> cacheLen, numPages |-> numPages,
   fileLength |-> fileLength, disk |-> disk, log |-> <<>>, err |-> "ok",
   handedOut |-> handedOut, io |-> io, ioerr |-> Nil, attempts |-> <<>>,
   calls |-> <<>>]

Machine == MachineWith(<<>>)

\* The history of an operation: the calls it made of the B+Tree's internal
\* functions, each with its arguments, the node's cell count and capacity at
\* the call, and the pages before the call and after its return.
NoCallMade ==
  [op |-> "", pageNum |-> 0, child |-> 0, oldMax |-> 0, newMax |-> 0,
   numCells |-> 0, maxCells |-> 0, newPage |-> 0, before |-> <<>>, after |-> <<>>]
Called(m, call) == [m EXCEPT !.calls = Append(@, call)]

\* the outcome of the next system calls, and the machine once they are made
Outcome(m) == IF m.io = <<>> THEN OkIO ELSE Head(m.io)
Consumed(m) == IF m.io = <<>> THEN m ELSE [m EXCEPT !.io = Tail(@)]

Ok(m) == m.err = "ok"
Fail(m, how) == IF Ok(m) THEN [m EXCEPT !.err = how] ELSE m
\* a call that returned without an error is entered with the pages it left
Returned(m, call) ==
  IF Ok(m) THEN Called(m, [call EXCEPT !.after = m.pages]) ELSE m

\* ---------------------------------------------------------------- pager
\* a failed GetPage that has counted the page it did not load
GetPageFailed_counted(m, pageIndex, out) ==
  [m EXCEPT !.cacheLen = Max2(m.cacheLen, pageIndex + 1),
            !.numPages = Max2(m.numPages, pageIndex + 1),
            !.ioerr = errorsNew("error reading file")]

\* Pager.GetPage, a cache miss on a page of the file whose seek or read fails
GetPageFailed(m, pageIndex, out) ==
  [m EXCEPT !.cacheLen = Max2(m.cacheLen, pageIndex + 1),
            !.ioerr = wrap(<<out.errno>>,
                           IF out.fails = "seek" THEN "error seeking to read position"
                           ELSE "error reading file")]

\* Pager.GetPage
GetPage(m, pageIndex) ==
  LET len == Max2(m.cacheLen, pageIndex + 1)
      page == IF pageIndex <= m.fileLength /\ pageIndex \in DOMAIN m.disk
              THEN m.disk[pageIndex] ELSE ZeroPage
  IN IF pageIndex \in DOMAIN m.pages
     THEN [m EXCEPT !.cacheLen = len, !.ioerr = Nil]
     ELSE IF pageIndex <= m.fileLength /\ Outcome(m).fails \in {"seek", "read"}
     THEN GetPageFailed(Consumed(m), pageIndex, Outcome(m))
     ELSE [m EXCEPT !.cacheLen = len,
                    !.pages = (pageIndex :> page) @@ m.pages,
                    !.numPages = Max2(m.numPages, pageIndex + 1),
                    !.io = IF pageIndex <= m.fileLength /\ @ # <<>> THEN Tail(@) ELSE @,
                    !.ioerr = Nil]

\* GetUnusedPageNum that returns the last page in use
GetUnusedPageNum_lastPage(m) == m.numPages - 1

\* Pager.GetUnusedPageNum
GetUnusedPageNum(m) == m.numPages

\* a call of GetUnusedPageNum, kept in the history: the page number returned,
\* numPages at the call, and whether a page of that number was in the cache
\* or in the file
HandOut(m) ==
  [m EXCEPT !.handedOut = Append(@,
     [pageNum |-> GetUnusedPageNum(m), numPages |-> m.numPages,
      inUse |-> GetUnusedPageNum(m) \in (DOMAIN m.pages \cup DOMAIN m.disk)])]

\* a store through a page reference obtained from GetPage
PutPage(m, pageNum, page) ==
  [m EXCEPT !.pages[pageNum] = page, !.log = Append(@, <<"mut", pageNum>>)]

\* a Flush that returns the error err
FlushFailed(m, pageIndex, err) ==
  [m EXCEPT !.err = IF @ = "ok" THEN "error" ELSE @,
            !.ioerr = err,
            !.attempts = Append(@, [pageNum |-> pageIndex, err |-> err, short |-> FALSE])]

\* a Flush that returns nil, with the page page in the file; short tells
\* that its write was a short one
FlushDone(m, pageIndex, page, short) ==
  [m EXCEPT !.disk = (pageIndex :> page) @@ m.disk,
            !.log = Append(@, <<"flush", pageIndex>>),
            !.ioerr = Nil,
            !.attempts = Append(@, [pageNum |-> pageIndex, err |-> Nil, short |-> short])]

\* What a write that stops after the 16 bytes of the node header leaves in
\* the file: the header of the page written, the cells that were there.
ShortWritten(m, pageIndex) ==
  LET old == IF pageIndex \in DOMAIN m.disk THEN m.disk[pageIndex] ELSE ZeroPage
      new == m.pages[pageIndex]
  IN [old EXCEPT !.isLeaf = new.isLeaf, !.isRoot = new.isRoot,
                 !.parentPointer = new.parentPointer,
                 !.numCells = new.numCells, !.link = new.link]

\* Pager.Flush, the system calls: Seek, Write (its byte count is dropped),
\* SyncFileRange
FlushIO(m, pageIndex, out) ==
  IF out.fails = "seek"
  THEN FlushFailed(m, pageIndex, wrap(<<out.errno>>, "error seeking to flush position"))
  ELSE IF out.fails = "write"
  THEN FlushFailed(m, pageIndex, wrap(<<out.errno>>, "error writing page"))
  ELSE IF out.fails = "short"
  THEN FlushDone(m, pageIndex, ShortWritten(m, pageIndex), TRUE)
  ELSE IF out.fails = "sync"
  THEN FlushFailed([m EXCEPT !.disk = (pageIndex :> m.pages[pageIndex]) @@ m.disk],
                   pageIndex, wrap(<<out.errno>>, "error syncing page"))
  ELSE FlushDone(m, pageIndex, m.pages[pageIndex], FALSE)

\* Pager.Flush(pageIndex, true): attempted whatever the outcome so far (sync2
\* evaluates both flushes before wrap2 looks at either error)
Flush(m, pageIndex) ==
  IF pageIndex >= m.cacheLen
  THEN FlushFailed(m, pageIndex, errorsNew("tried to sync page out of range"))
  ELSE IF pageIndex \notin DOMAIN m.pages
  THEN FlushFailed(m, pageIndex, errorsNew("tried to flush nil page"))
  ELSE FlushIO(Consumed(m), pageIndex, Outcome(m))

\* Pager.sync1
sync1(m, p) == IF Ok(m) THEN [Flush(m, p) EXCEPT !.ioerr = wrap(@, "sync error")] ELSE m
\* sync2 that flushes only its first page
sync2_firstOnly(m, p1, p2) == IF Ok(m) THEN Flush(m, p1) ELSE m

\* Pager.sync2, after its first Flush
sync2Second(a, p2) == [Flush(a, p2) EXCEPT !.ioerr = wrap2(a.ioerr, @, "sync error")]

\* Pager.sync2
sync2(m, p1, p2) == IF Ok(m) THEN sync2Second(Flush(m, p1), p2) ELSE m

\* Pager.sync3, after its first two Flushes
sync3Third(a, b, p3) ==
  [Flush(b, p3) EXCEPT !.ioerr = wrap3(a.ioerr, b.ioerr, @, "sync error")]

\* Pager.sync3, after its first Flush
sync3Second(a, p2, p3) == sync3Third(a, Flush(a, p2), p3)

\* Pager.sync3
sync3(m, p1, p2, p3) == IF Ok(m) THEN sync3Second(Flush(m, p1), p2, p3) ELSE m

\* ---------------------------------------------------------------- leaf view
\* leafNode.getCellSize
leafGetCellSize == keySize + dataSize

\* leafNode.getMaxNumCells
leafGetMaxNumCells == leafNodeMaxCellData \div leafGetCellSize

\* leafNode.init
leafInit(n) == [n EXCEPT !.isLeaf = TRUE, !.isRoot = FALSE, !.numCells = 0, !.link = 0]

\* getMaxKey that reads the first cell
leafGetMaxKey_firstCell(n) ==
  IF n.numCells = 0 \/ n.numCells > leafGetMaxNumCells THEN PanicKey
  ELSE n.cellData[0].key

\* leafNode.getMaxKey: cell numCells-1; with numCells = 0 the uint16 index wraps
\* to 65535 and the slice expression panics
leafGetMaxKey(n) ==
  IF n.numCells = 0 \/ n.numCells > leafGetMaxNumCells THEN PanicKey
  ELSE n.cellData[n.numCells - 1].key

\* split counts with the larger half for the old leaf
leafSplitCounts_ceilLeft ==
  LET old == (leafGetMaxNumCells + 2) \div 2 IN <<old, (leafGetMaxNumCells + 1) - old>>

\* leafNode.getSplitCounts
leafSplitCounts ==
  LET old == (leafGetMaxNumCells + 1) \div 2 IN <<old, (leafGetMaxNumCells + 1) - old>>

\* leafNode.findKeyIndex: the binary search, on whatever the cells hold
RECURSIVE leafSearch(_, _, _, _)
leafSearch(n, key, minIndex, onePastMaxIndex) ==
  IF onePastMaxIndex = minIndex THEN minIndex
  ELSE LET index == (minIndex + onePastMaxIndex) \div 2
           keyAtIndex == n.cellData[index].key
       IN IF key = keyAtIndex THEN index
          ELSE IF key < keyAtIndex THEN leafSearch(n, key, minIndex, index)
          ELSE leafSearch(n, key, index + 1, onePastMaxIndex)

\* a search that passes over an equal key: the index after the cell holding it
leafFindKeyIndex_pastEqual(n, key) ==
  Cardinality({i \in 0..(n.numCells - 1) : n.cellData[i].key <= key})

leafFindKeyIndex(n, key) == leafSearch(n, key, 0, n.numCells)

\* makeRoomForInsert without the copy: the cell at pos is overwritten
leafMakeRoomForInsert_noShift(n, pos) == n

\* leafNode.makeRoomForInsert: cells pos..numCells-1 slide right by one
leafMakeRoomForInsert(n, pos) ==
  [n EXCEPT !.cellData = [j \in CellIndexes |->
      IF j > pos /\ j <= n.numCells THEN n.cellData[j - 1] ELSE n.cellData[j]]]

\* insertDirect that writes the new cell after the last one, whatever pos is
leafInsertDirect_append(n, pos, key, value) ==
  [n EXCEPT !.cellData[n.numCells] = [key |-> key, value |-> value],
            !.numCells = n.numCells + 1]

\* leafNode.insertDirect (its assertion numCells < maxCells is checked by the
\* callers below, which panic)
leafInsertDirect(n, pos, key, value) ==
  LET r == leafMakeRoomForInsert(n, pos)
  IN [r EXCEPT !.cellData[pos] = [key |-> key, value |-> value],
               !.numCells = n.numCells + 1]

\* ---------------------------------------------------------------- branch view
\* branchNode.init
branchInit(n) == [n EXCEPT !.isLeaf = FALSE, !.isRoot = FALSE, !.numCells = 0]

\* branchNode.getChildPage
getChildPage(n, childNum) ==
  IF n.numCells = childNum THEN n.link ELSE n.cells[childNum].child

\* branchNode.getMaxKey: the key of cell numCells-1 (index 65535 panics)
branchGetMaxKey(n) ==
  IF n.numCells = 0 \/ n.numCells > BranchMaxCells + 1 THEN PanicKey
  ELSE n.cells[n.numCells - 1].key

\* nodeHeader.getMaxKey
nodeGetMaxKey(n) == IF n.isLeaf THEN leafGetMaxKey(n) ELSE branchGetMaxKey(n)

\* branchNode.getSplitCounts
branchSplitCounts ==
  LET old == (BranchMaxCells + 1) \div 2 IN <<old, BranchMaxCells - old>>

\* branchNode.findKeyIndex
RECURSIVE branchSearch(_, _, _, _)
branchSearch(n, key, minIndex, maxIndex) ==
  IF minIndex = maxIndex THEN minIndex
  ELSE LET index == (minIndex + maxIndex) \div 2
       IN IF n.cells[index].key >= key THEN branchSearch(n, key, minIndex, index)
          ELSE branchSearch(n, key, index + 1, maxIndex)

branchFindKeyIndex(n, key) == branchSearch(n, key, 0, n.numCells)

\* branchNode.makeRoomForInsert
branchMakeRoomForInsert(n, pos) ==
  [n EXCEPT !.cells = [j \in 0..BranchMaxCells |->
      IF j > pos /\ j <= n.numCells THEN n.cells[j - 1] ELSE n.cells[j]]]

\* branchNode.getRightChildMaxKey (PanicKey when the page is not there or empty)
getRightChildMaxKey(m, n) ==
  IF n.link \in DOMAIN m.pages THEN nodeGetMaxKey(m.pages[n.link]) ELSE PanicKey

\* The bytes of a leaf page read as branchNode.cells.  Cell i of a branch is
\* the 8 bytes at 8i of the cell region: child at 8i, key at 8i+4.  Leaf cell 0
\* is its key at 0 and its value from byte 4 on, so cells[0] is
\* (child = key of leaf cell 0, key = value word 0) and, for i >= 1, cells[i]
\* is (child = value word 2i-1, key = value word 2i), all inside leaf cell 0.
LeafBytesAsBranchCells(n) ==
  LET c0 == n.cellData[0]
  IN [i \in 0..BranchMaxCells |->
        IF i = 0 THEN [child |-> c0.key, key |-> c0.value.id]
        ELSE IF i = BranchMaxCells THEN [child |-> 0, key |-> c0.value.w]
        ELSE ZeroBranchCell]

\* ---------------------------------------------------------------- Table.Find
\* A cursor: pageNum, cellNum, endOfTable, advanceError; ok = FALSE stands
\* for a Find that does not return a cursor (an error, a descent that never
\* reaches a leaf, or a panic).
NoCursor ==
  [pageNum |-> 0, cellNum |-> 0, endOfTable |-> TRUE, advanceError |-> Nil, ok |-> FALSE]

\* Table.findInLeafNode: the cursor on cell cellNum of leaf pageNum
LeafCursor(pageNum, cellNum) ==
  [pageNum |-> pageNum, cellNum |-> cellNum, endOfTable |-> FALSE,
   advanceError |-> Nil, ok |-> TRUE]

\* Table.findInPage / findInLeafNode / findInBranchNode, every page of the
\* descent being in the cache
RECURSIVE findInPage(_, _, _, _)
findInPage(pgs, pageNum, key, depth) ==
  IF depth > MaxDepth \/ pageNum \notin DOMAIN pgs THEN NoCursor
  ELSE LET node == pgs[pageNum]
       IN IF node.isLeaf
          THEN LeafCursor(pageNum, leafFindKeyIndex(node, key))
          ELSE findInPage(pgs, getChildPage(node, branchFindKeyIndex(node, key)),
                          key, depth + 1)

\* Table.Find on a cache that holds the tree (rootPageNum is the constant 0
\* of Open)
Find(pgs, key) == findInPage(pgs, 0, key, 0)

\* Table.Start on a cache that holds the tree
Start(pgs) ==
  LET c == Find(pgs, 0)
  IN IF c.ok THEN [c EXCEPT !.endOfTable = (pgs[c.pageNum].numCells = 0)] ELSE c

\* ---------------------------------------------------------------- Cursor
\* Cursor.Value with no error recorded and its page in the cache: the cell at
\* cellNum, whatever it holds; a cell index past the cell region panics
\* (slice bounds out of range)
NoRecord == [key |-> PanicKey, value |-> ZeroValue]
Value(pgs, c) ==
  IF ~c.ok \/ c.cellNum >= leafGetMaxNumCells THEN NoRecord
  ELSE pgs[c.pageNum].cellData[c.cellNum]

\* Cursor.Next, its page being in the cache
Next_(pgs, c) ==
  IF c.advanceError # Nil \/ c.endOfTable THEN c
  ELSE LET leaf == pgs[c.pageNum]
       IN IF c.cellNum + 1 < leaf.numCells THEN [c EXCEPT !.cellNum = c.cellNum + 1]
          ELSE IF leaf.link # 0 THEN [c EXCEPT !.pageNum = leaf.link, !.cellNum = 0]
          ELSE [c EXCEPT !.endOfTable = TRUE]

\* End that looks at endOfTable only
End_endOfTableOnly(c) == c.endOfTable

\* Cursor.End
End(c) == c.endOfTable \/ c.advanceError # Nil

\* what a call on the cursor or the pager returns: the record and error of
\* Value, the boolean of End, the error of a sync; sticky tells that the
\* cursor had an error recorded when the call was made, args are the page
\* arguments of a sync and attempts the Flush calls it made
NoCall ==
  [op |-> "none", rec |-> ZeroLeafCell, err |-> Nil, end |-> FALSE, sticky |-> FALSE,
   args |-> <<>>, attempts |-> <<>>]

\* Table.findInPage on the pager, g being the pager after GetPage(pageNum):
\* the pager it leaves, the cursor, the error
RECURSIVE findInPageIO(_, _, _, _)
findInPageIO(g, pageNum, key, depth) ==
  IF g.ioerr # Nil
  THEN [m |-> g, c |-> NoCursor, err |-> wrap(g.ioerr, "unable to get page")]
  ELSE IF depth > MaxDepth
  THEN [m |-> Fail(g, "panic"), c |-> NoCursor, err |-> Nil]
  ELSE IF g.pages[pageNum].isLeaf
  THEN [m |-> g, c |-> LeafCursor(pageNum, leafFindKeyIndex(g.pages[pageNum], key)),
        err |-> Nil]
  ELSE findInPageIO(
         GetPage(g, getChildPage(g.pages[pageNum], branchFindKeyIndex(g.pages[pageNum], key))),
         getChildPage(g.pages[pageNum], branchFindKeyIndex(g.pages[pageNum], key)),
         key, depth + 1)

\* Table.Find on the pager
FindIO(m, key) == findInPageIO(GetPage(m, 0), 0, key, 0)

\* Table.Start on the pager, after its Find and its GetPage of the leaf
StartFound(f, g) ==
  IF f.err # Nil \/ ~f.c.ok
  THEN [f EXCEPT !.err = wrap(@, "unable to find start of table")]
  ELSE IF g.ioerr # Nil
  THEN [m |-> g, c |-> NoCursor, err |-> wrap(g.ioerr, "unable to get root page")]
  ELSE [m |-> g, c |-> [f.c EXCEPT !.endOfTable = (g.pages[f.c.pageNum].numCells = 0)],
        err |-> Nil]

\* Table.Start on the pager, after its Find
StartIO2(f) == StartFound(f, GetPage(f.m, f.c.pageNum))

\* Table.Start on the pager
StartIO(m) == StartIO2(FindIO(m, 0))

\* Cursor.Value after its GetPage
ValueGot(g, c) ==
  IF g.ioerr # Nil
  THEN [m |-> g, c |-> [c EXCEPT !.advanceError = wrap(g.ioerr, "unable to get page")],
        rec |-> ZeroLeafCell, err |-> wrap(g.ioerr, "unable to get page")]
  ELSE [m |-> g, c |-> c, rec |-> Value(g.pages, c), err |-> Nil]

\* Value that does not look at advanceError: it reads the page again
ValueIO_retry(m, c) == ValueGot(GetPage(m, c.pageNum), c)

\* Cursor.Value on the pager
ValueIO(m, c) ==
  IF c.advanceError # Nil
  THEN [m |-> m, c |-> c, rec |-> ZeroLeafCell, err |-> c.advanceError]
  ELSE ValueGot(GetPage(m, c.pageNum), c)

\* Cursor.Next after its GetPage
NextGot(g, c) ==
  IF g.ioerr # Nil
  THEN [m |-> g, c |-> [c EXCEPT !.advanceError = wrap(g.ioerr, "unable to get page")]]
  ELSE [m |-> g, c |-> Next_(g.pages, c)]

\* Cursor.Next on the pager
NextIO(m, c) ==
  IF c.advanceError # Nil \/ c.endOfTable THEN [m |-> m, c |-> c]
  ELSE NextGot(GetPage(m, c.pageNum), c)

\* ---------------------------------------------------------------- inserts
ZeroCellData == [i \in CellIndexes |-> ZeroLeafCell]

\* reparentChild that syncs the child before it stores the parent pointer
reparentChild_syncFirst(m, pageNum, childPageNum) ==
  LET m1 == sync1(GetPage(m, childPageNum), childPageNum)
  IN IF Ok(m1)
     THEN PutPage(m1, childPageNum,
                  [m1.pages[childPageNum] EXCEPT !.parentPointer = pageNum])
     ELSE m1

\* branchNode.reparentChild
reparentChild(m, pageNum, childPageNum) ==
  LET m1 == GetPage(m, childPageNum)
  IN sync1(PutPage(m1, childPageNum,
                   [m1.pages[childPageNum] EXCEPT !.parentPointer = pageNum]),
           childPageNum)

\* branchNode.reparentChildren: cells i, i+1, ... of n, then its rightChild
RECURSIVE reparentFrom(_, _, _, _)
reparentFrom(m, n, pageNum, i) ==
  IF ~Ok(m) THEN m
  ELSE IF i < BranchMaxCells /\ i < n.numCells
  THEN reparentFrom(reparentChild(m, pageNum, n.cells[i].child), n, pageNum, i + 1)
  ELSE reparentChild(m, pageNum, n.link)

\* reparentChildren that leaves every child with its old parent
reparentChildren_none(m, pageNum) == m

\* branchNode.reparentChildren
reparentChildren(m, pageNum) == reparentFrom(m, m.pages[pageNum], pageNum, 0)

\* sort.Search(n, f) with f(i) = cells[i].key >= key
RECURSIVE sortSearch(_, _, _, _)
sortSearch(cells, key, i, j) ==
  IF i >= j THEN i
  ELSE LET h == (i + j) \div 2
       IN IF ~(cells[h].key >= key) THEN sortSearch(cells, key, h + 1, j)
          ELSE sortSearch(cells, key, i, h)

\* branchNode.updateMaximum
RECURSIVE updateMaximum(_, _, _, _, _)
updateMaximum(m, pageNum, oldMax, newMax, depth) ==
  IF ~Ok(m) THEN m
  ELSE IF depth > MaxDepth THEN Fail(m, "panic")
  ELSE
  LET n == m.pages[pageNum]
      pageIndex == branchFindKeyIndex(n, oldMax)
  IN IF n.isLeaf \/ getRightChildMaxKey(m, n) = PanicKey THEN Fail(m, "panic")
     ELSE IF pageIndex < n.numCells
     THEN sync1(PutPage(m, pageNum, [n EXCEPT !.cells[pageIndex].key = newMax]), pageNum)
     ELSE IF n.isRoot THEN m
     ELSE updateMaximum(GetPage(m, n.parentPointer), n.parentPointer, oldMax, newMax,
                        depth + 1)

\* branchNode.insertDirect as branchNode.insert calls it (pos = findKeyIndex(key))
branchInsertDirect(m, n, pos, key, child) ==
  LET rightChildMaxKey == getRightChildMaxKey(m, n)
      orig == n.numCells
  IN IF key > rightChildMaxKey
     THEN [n EXCEPT !.cells[orig] = [child |-> n.link, key |-> rightChildMaxKey],
                    !.link = child, !.numCells = orig + 1]
     ELSE [branchMakeRoomForInsert(n, pos) EXCEPT
                    !.cells[pos] = [child |-> child, key |-> key],
                    !.numCells = orig + 1]

\* an outermost call of branchNode.updateMaximum, entered in the history
updateMaximumCall(m, pageNum, oldMax, newMax, depth) ==
  Returned(updateMaximum(m, pageNum, oldMax, newMax, depth),
           [NoCallMade EXCEPT !.op = "updateMaximum", !.pageNum = pageNum,
                              !.oldMax = oldMax, !.newMax = newMax,
                              !.before = m.pages])

\* a call of branchNode.insert on a full branch, entered in the history when
\* it starts to split ("splitting") and when it returns ("split")
SplitCall(m, op, pageNum, childPageNum, childMaxKey) ==
  [NoCallMade EXCEPT
     !.op = op, !.pageNum = pageNum, !.child = childPageNum,
     !.oldMax = getRightChildMaxKey(m, m.pages[pageNum]), !.newMax = childMaxKey,
     !.numCells = m.pages[pageNum].numCells, !.maxCells = BranchMaxCells,
     !.newPage = GetUnusedPageNum(m), !.before = m.pages, !.after = m.pages]

RECURSIVE branchInsert(_, _, _, _)
RECURSIVE insertAfterSplit(_, _, _, _, _, _)

\* branchNode.insert, the branch has room
branchInsertRoom(m, pageNum, childPageNum, childMaxKey, depth) ==
  LET n == m.pages[pageNum]
      originalNumCells == n.numCells
      rightChildMaxKey == getRightChildMaxKey(m, n)
      parentPageNum == n.parentPointer
  IN IF rightChildMaxKey = PanicKey THEN Fail(m, "panic")
     ELSE IF childMaxKey > rightChildMaxKey
     THEN LET m1 == PutPage(m, pageNum,
                      [n EXCEPT !.cells[originalNumCells] =
                                    [child |-> n.link, key |-> rightChildMaxKey],
                                !.link = childPageNum,
                                !.numCells = originalNumCells + 1])
              m2 == updateMaximumCall(GetPage(m1, parentPageNum), parentPageNum,
                                      rightChildMaxKey, childMaxKey, depth + 1)
          IN sync1(m2, pageNum)
     ELSE sync1(PutPage(Called(m, [NoCallMade EXCEPT
                                     !.op = "branchInsertDirect", !.pageNum = pageNum,
                                     !.child = childPageNum, !.newMax = childMaxKey,
                                     !.numCells = n.numCells,
                                     !.maxCells = BranchMaxCells,
                                     !.before = m.pages, !.after = m.pages]),
                        pageNum,
                        branchInsertDirect(m, n, branchFindKeyIndex(n, childMaxKey),
                                           childMaxKey, childPageNum)),
                pageNum)

\* branchNode.insert, split: newCells, the cells of the full branch, its old
\* rightChild at len-2 and the new child at idx.  The search reads
\* leftBranch.cells, not newCells.
splitNewCells(leftBranch, leftBranchOldMaxKey, childPageNum, childMaxKey) ==
  LET len == leftBranch.numCells + 2
      idx == sortSearch(leftBranch.cells, childMaxKey, 0, len - 1)
  IN [j \in 0..(len - 1) |->
        LET k == IF j < idx THEN j ELSE j - 1
        IN IF j = idx THEN [child |-> childPageNum, key |-> childMaxKey]
           ELSE IF k < leftBranch.numCells THEN leftBranch.cells[k]
           ELSE IF k = len - 2
           THEN [child |-> leftBranch.link, key |-> leftBranchOldMaxKey]
           ELSE ZeroBranchCell]

\* a left half whose rightChild is the child of its last cell once more, not
\* the child of the middle cell
splitLeft_lastChildTwice(leftBranch, newCells) ==
  [leftBranch EXCEPT
     !.cells = [j \in 0..BranchMaxCells |->
                  IF j < branchSplitCounts[1] THEN newCells[j] ELSE leftBranch.cells[j]],
     !.link = newCells[branchSplitCounts[1] - 1].child,
     !.numCells = branchSplitCounts[1]]

\* branchNode.insert, split: the left half, newCells[:leftBranchSplitSize]
splitLeft(leftBranch, newCells) ==
  [leftBranch EXCEPT
     !.cells = [j \in 0..BranchMaxCells |->
                  IF j < branchSplitCounts[1] THEN newCells[j] ELSE leftBranch.cells[j]],
     !.link = newCells[branchSplitCounts[1]].child,
     !.numCells = branchSplitCounts[1]]

\* branchNode.insert, split: the right half, newCells[leftBranchSplitSize+1:]
splitRight(rightBranch, newCells, len) ==
  [rightBranch EXCEPT
     !.cells = [j \in 0..BranchMaxCells |->
                  IF branchSplitCounts[1] + 1 + j <= len - 1
                  THEN newCells[branchSplitCounts[1] + 1 + j]
                  ELSE rightBranch.cells[j]],
     !.link = newCells[len - 1].child,
     !.numCells = branchSplitCounts[2]]

\* branchNode.insert, split: both halves are stored, collectKeys (debug code)
\* reads both right children, sync2, and the right half's children are
\* reparented
splitStore(m, leftBranchPageNum, rightBranchPageNum, left, right) ==
  reparentChildren(
    sync2(IF getRightChildMaxKey(m, left) = PanicKey
             \/ getRightChildMaxKey(m, right) = PanicKey
          THEN Fail(m, "panic") ELSE m,
          leftBranchPageNum, rightBranchPageNum),
    rightBranchPageNum)

\* a new root whose first cell points at the rightChild of the left half, not
\* at the left half
splitNewRoot_skipsLevel(m, leftBranchPageNum, newLeftBranchPageNum, rightBranchPageNum, newMaxKey) ==
  IF newMaxKey = PanicKey THEN Fail(m, "panic")
  ELSE reparentChildren(
         sync2(PutPage(m, leftBranchPageNum,
                       [branchInit(m.pages[leftBranchPageNum]) EXCEPT
                          !.isRoot = TRUE, !.numCells = 1,
                          !.cells[0] = [child |-> m.pages[newLeftBranchPageNum].link,
                                        key |-> newMaxKey],
                          !.link = rightBranchPageNum]),
               leftBranchPageNum, newLeftBranchPageNum),
         newLeftBranchPageNum)

\* branchNode.insert, split of the root: the root page is set up as a branch
\* over the copy of the left half and the right half
splitNewRoot(m, leftBranchPageNum, newLeftBranchPageNum, rightBranchPageNum, newMaxKey) ==
  IF newMaxKey = PanicKey THEN Fail(m, "panic")
  ELSE reparentChildren(
         sync2(PutPage(m, leftBranchPageNum,
                       [branchInit(m.pages[leftBranchPageNum]) EXCEPT
                          !.isRoot = TRUE, !.numCells = 1,
                          !.cells[0] = [child |-> newLeftBranchPageNum,
                                        key |-> newMaxKey],
                          !.link = rightBranchPageNum]),
               leftBranchPageNum, newLeftBranchPageNum),
         newLeftBranchPageNum)

\* the root split that copies the left half with its isRoot flag still set
splitRoot_keepsRoot(m, leftBranchPageNum, newLeftBranchPageNum, rightBranchPageNum) ==
  LET newLeftBranch == [m.pages[leftBranchPageNum] EXCEPT
                          !.parentPointer = leftBranchPageNum]
  IN splitNewRoot(PutPage(GetPage(m, newLeftBranchPageNum), newLeftBranchPageNum,
                          newLeftBranch),
                  leftBranchPageNum, newLeftBranchPageNum, rightBranchPageNum,
                  getRightChildMaxKey(m, newLeftBranch))

\* branchNode.insert, split of the root: the left half is copied to a new page
splitRoot(m, leftBranchPageNum, newLeftBranchPageNum, rightBranchPageNum) ==
  LET newLeftBranch == [m.pages[leftBranchPageNum] EXCEPT
                          !.isRoot = FALSE, !.parentPointer = leftBranchPageNum]
  IN splitNewRoot(PutPage(GetPage(m, newLeftBranchPageNum), newLeftBranchPageNum,
                          newLeftBranch),
                  leftBranchPageNum, newLeftBranchPageNum, rightBranchPageNum,
                  getRightChildMaxKey(m, newLeftBranch))

\* branchNode.insert, split: "Modify the parent"
splitParent(m, leftBranchPageNum, rightBranchPageNum, leftBranchOldMaxKey, depth) ==
  IF ~Ok(m) THEN m
  ELSE IF m.pages[leftBranchPageNum].isRoot
  THEN splitRoot(HandOut(m), leftBranchPageNum, GetUnusedPageNum(m), rightBranchPageNum)
  ELSE IF getRightChildMaxKey(m, m.pages[leftBranchPageNum]) = PanicKey
  THEN Fail(GetPage(m, m.pages[leftBranchPageNum].parentPointer), "panic")
  ELSE insertAfterSplit(GetPage(m, m.pages[leftBranchPageNum].parentPointer),
                        m.pages[leftBranchPageNum].parentPointer,
                        leftBranchOldMaxKey,
                        getRightChildMaxKey(m, m.pages[leftBranchPageNum]),
                        rightBranchPageNum, depth + 1)

\* branchNode.insert, split: the halves are cut from newCells
splitHalves(m, leftBranchPageNum, rightBranchPageNum, newCells, oldMaxKey, depth) ==
  LET left == splitLeft(m.pages[leftBranchPageNum], newCells)
      right == splitRight([branchInit(m.pages[rightBranchPageNum]) EXCEPT
                              !.parentPointer = m.pages[leftBranchPageNum].parentPointer],
                          newCells, m.pages[leftBranchPageNum].numCells + 2)
  IN splitParent(
       splitStore(PutPage(PutPage(m, leftBranchPageNum, left), rightBranchPageNum, right),
                  leftBranchPageNum, rightBranchPageNum, left, right),
       leftBranchPageNum, rightBranchPageNum, oldMaxKey, depth)

\* branchNode.insert, the branch is full: split it
branchInsertSplit(m, pageNum, childPageNum, childMaxKey, depth) ==
  LET leftBranchOldMaxKey == getRightChildMaxKey(m, m.pages[pageNum])
  IN IF leftBranchOldMaxKey = PanicKey
     THEN Fail(GetPage(HandOut(m), GetUnusedPageNum(m)), "panic")
     ELSE splitHalves(GetPage(HandOut(m), GetUnusedPageNum(m)), pageNum, GetUnusedPageNum(m),
                      splitNewCells(m.pages[pageNum], leftBranchOldMaxKey,
                                    childPageNum, childMaxKey),
                      leftBranchOldMaxKey, depth)

\* branchNode.insert
branchInsert(m, pageNum, childPageNum, depth) ==
  IF ~Ok(m) THEN m
  ELSE IF depth > MaxDepth THEN Fail(m, "panic")
  ELSE
  LET m1 == GetPage(m, childPageNum)
      n == m1.pages[pageNum]
      childMaxKey == nodeGetMaxKey(m1.pages[childPageNum])
  IN IF n.isLeaf \/ childMaxKey = PanicKey THEN Fail(m1, "panic")
     ELSE IF n.numCells < BranchMaxCells
     THEN Returned(branchInsertRoom(m1, pageNum, childPageNum, childMaxKey, depth),
                   [NoCallMade EXCEPT
                      !.op = "insert", !.pageNum = pageNum, !.child = childPageNum,
                      !.oldMax = getRightChildMaxKey(m1, n), !.newMax = childMaxKey,
                      !.numCells = n.numCells, !.maxCells = BranchMaxCells,
                      !.before = m1.pages])
     ELSE Returned(branchInsertSplit(
                     Called(m1, SplitCall(m1, "splitting", pageNum, childPageNum,
                                          childMaxKey)),
                     pageNum, childPageNum, childMaxKey, depth),
                   SplitCall(m1, "split", pageNum, childPageNum, childMaxKey))

\* a call of branchNode.insertAfterSplit, entered in the history
insertAfterSplitCalled(m, pageNum, oldMax, newMax, childPageNum) ==
  Called(m, [NoCallMade EXCEPT !.op = "insertAfterSplit", !.pageNum = pageNum,
                               !.child = childPageNum, !.oldMax = oldMax,
                               !.newMax = newMax, !.before = m.pages,
                               !.after = m.pages])

\* branchNode.insertAfterSplit, with its assertions
insertAfterSplit(m, pageNum, oldMax, newMax, childPageNum, depth) ==
  IF ~Ok(m) THEN m
  ELSE IF m.pages[pageNum].isLeaf \/ ~(oldMax > newMax)
  THEN Fail(insertAfterSplitCalled(m, pageNum, oldMax, newMax, childPageNum), "panic")
  ELSE branchInsert(
         updateMaximumCall(insertAfterSplitCalled(m, pageNum, oldMax, newMax, childPageNum),
                           pageNum, oldMax, newMax, depth),
         pageNum, childPageNum, depth)

\* a call of leafNode.insertDirect on the node n of page pageNum, entered in
\* the history
leafInsertDirectCalled(m, pageNum, n, key) ==
  Called(m, [NoCallMade EXCEPT !.op = "leafInsertDirect", !.pageNum = pageNum,
                               !.newMax = key, !.numCells = n.numCells,
                               !.maxCells = leafGetMaxNumCells,
                               !.before = m.pages, !.after = m.pages])

\* leafNode.insert, the leaf is full: split it
leafInsertSplit(m, leftLeafPageNum, key, value) ==
  LET leftLeaf == m.pages[leftLeafPageNum]
      leftLeafOldMaxKey == leafGetMaxKey(leftLeaf)
      rightLeafPageNum == GetUnusedPageNum(m)
      m1 == GetPage(HandOut(m), rightLeafPageNum)
      rightLeaf == [leafInit(m1.pages[rightLeafPageNum]) EXCEPT
                       !.parentPointer = leftLeaf.parentPointer,
                       !.link = leftLeaf.link]
      leftLeafSplitSize == leafSplitCounts[1]
      rightLeafSplitSize == leafSplitCounts[2]
      newEntryGoesLeft == leftLeaf.cellData[leftLeafSplitSize - 1].key > key
      splitCell == IF newEntryGoesLeft THEN leftLeafSplitSize - 1 ELSE leftLeafSplitSize
      left1 == [leftLeaf EXCEPT
                  !.link = rightLeafPageNum,
                  !.numCells = IF newEntryGoesLeft THEN leftLeafSplitSize - 1
                               ELSE leftLeafSplitSize]
      \* copy(rightLeaf.cellData[:], leftLeaf.cellData[splitCellStart:])
      right1 == [rightLeaf EXCEPT
                  !.numCells = IF newEntryGoesLeft THEN rightLeafSplitSize
                               ELSE rightLeafSplitSize - 1,
                  !.cellData = [j \in CellIndexes |->
                                  IF splitCell + j <= leafGetMaxNumCells - 1
                                  THEN leftLeaf.cellData[splitCell + j]
                                  ELSE rightLeaf.cellData[j]]]
      left2 == IF newEntryGoesLeft
               THEN leafInsertDirect(left1, leafFindKeyIndex(left1, key), key, value)
               ELSE left1
      right2 == IF newEntryGoesLeft THEN right1
                ELSE leafInsertDirect(right1, leafFindKeyIndex(right1, key), key, value)
      m2 == PutPage(PutPage(leafInsertDirectCalled(
                              m1, IF newEntryGoesLeft THEN leftLeafPageNum
                                  ELSE rightLeafPageNum,
                              IF newEntryGoesLeft THEN left1 ELSE right1, key),
                            rightLeafPageNum, right2), leftLeafPageNum, left2)
      m3 == sync2(m2, leftLeafPageNum, rightLeafPageNum)
  IN IF ~Ok(m3) THEN m3
     ELSE IF left2.isRoot
     THEN \* the root leaf split: copy the left leaf to a new page and make
          \* the root page a branch
          LET newLeftLeafPageNum == GetUnusedPageNum(m3)
              m4 == GetPage(HandOut(m3), newLeftLeafPageNum)
              newLeftLeaf == [left2 EXCEPT !.isRoot = FALSE,
                                           !.parentPointer = leftLeafPageNum]
              root == [branchInit(left2) EXCEPT
                         !.isRoot = TRUE, !.numCells = 1,
                         !.cells = [LeafBytesAsBranchCells(left2) EXCEPT
                                      ![0] = [child |-> newLeftLeafPageNum,
                                              key |-> leafGetMaxKey(newLeftLeaf)]],
                         !.link = rightLeafPageNum,
                         !.cellData = ZeroCellData]
              m5 == PutPage(PutPage(m4, newLeftLeafPageNum, newLeftLeaf),
                            leftLeafPageNum, root)
          IN sync2(m5, leftLeafPageNum, newLeftLeafPageNum)
     ELSE LET parentPageNum == left2.parentPointer
              m4 == GetPage(m3, parentPageNum)
          IN insertAfterSplit(m4, parentPageNum, leftLeafOldMaxKey,
                              leafGetMaxKey(left2), rightLeafPageNum, 0)

\* an insert that splits one cell late: a full leaf is inserted into directly
leafInsert_splitsLate(m, cursor, key, value) ==
  IF m.pages[cursor.pageNum].numCells <= leafGetMaxNumCells
  THEN sync1(PutPage(leafInsertDirectCalled(m, cursor.pageNum, m.pages[cursor.pageNum], key),
                     cursor.pageNum,
                     leafInsertDirect(m.pages[cursor.pageNum], cursor.cellNum, key, value)),
             cursor.pageNum)
  ELSE leafInsertSplit(m, cursor.pageNum, key, value)

\* an insert that, in a leaf with room, also flushes the root page
leafInsert_flushesRoot(m, cursor, key, value) ==
  IF m.pages[cursor.pageNum].numCells < leafGetMaxNumCells
  THEN sync2(PutPage(leafInsertDirectCalled(m, cursor.pageNum, m.pages[cursor.pageNum], key),
                     cursor.pageNum,
                     leafInsertDirect(m.pages[cursor.pageNum], cursor.cellNum, key, value)),
             0, cursor.pageNum)
  ELSE leafInsertSplit(m, cursor.pageNum, key, value)

\* leafNode.insert
leafInsert(m, cursor, key, value) ==
  LET leftLeafPageNum == cursor.pageNum
      leftLeaf == m.pages[leftLeafPageNum]
  IN IF leftLeaf.numCells < leafGetMaxNumCells
     THEN sync1(PutPage(leafInsertDirectCalled(m, leftLeafPageNum, leftLeaf, key),
                        leftLeafPageNum,
                        leafInsertDirect(leftLeaf, cursor.cellNum, key, value)),
                leftLeafPageNum)
     ELSE leafInsertSplit(m, leftLeafPageNum, key, value)

\* a validation that accepts a value of any length
validLength_any(valueLen) == TRUE

\* insertStatement.Execute, the validation: len(s.value) against dataSize
validLength(valueLen) == valueLen = dataSize

\* insertStatement.Execute, on a value of valueLen bytes
Execute(m, key, value, valueLen) ==
  LET cursor == Find(m.pages, key)
      leaf == m.pages[cursor.pageNum]
  IN IF ~validLength(valueLen) THEN Fail(m, "invalid")
     ELSE IF ~cursor.ok THEN Fail(m, "panic")
     ELSE IF cursor.cellNum < leaf.numCells /\ leaf.cellData[cursor.cellNum].key = key
     THEN Fail(m, "dup")
     ELSE leafInsert(m, cursor, key, value)

\* Open that initialises page 0 whatever the file holds
OpenTable_always(m) ==
  sync1(PutPage(GetPage(m, 0), 0, [leafInit(ZeroPage) EXCEPT !.isRoot = TRUE]), 0)

\* Open
OpenTable(m) ==
  IF m.numPages = 0
  THEN LET m1 == GetPage(m, 0)
       IN sync1(PutPage(m1, 0, [leafInit(m1.pages[0]) EXCEPT !.isRoot = TRUE]), 0)
  ELSE m

\* ---------------------------------------------------------------- actions
NoInsert == [key |-> 0, value |-> ZeroValue, wasStored |-> FALSE, calls |-> <<>>]

\* OpenPager on a file that does not exist yet
\* no File is open, and no call was made on one
NoFile == [open |-> FALSE, len |-> 0, mem |-> <<>>]
NoPuts == [n |-> 0, latest |-> <<>>, failed |-> FALSE, call |-> "none", key |-> <<>>,
           value |-> <<>>, err |-> Nil]

\* no call on a matcher yet
NoAnswer == [call |-> "none", args |-> <<>>, value |-> FALSE, err |-> Nil, ran |-> 0]

Init ==
  /\ pages = <<>>
  /\ cacheLen = 0
  /\ numPages = 0
  /\ fileLength = 0
  /\ disk = <<>>
  /\ opened = FALSE
  /\ dataSize = 0
  /\ result = "none"
  /\ log = <<>>
  /\ last = NoInsert
  /\ stored = <<>>
  /\ dupAccepted = FALSE
  /\ handedOut = <<>>
  /\ heldCursor = NoCursor
  /\ ret = NoCall
  /\ firstError = Nil
  /\ record = <<>>
  /\ answer = NoAnswer
  /\ file = NoFile
  /\ puts = NoPuts

Commit(m) ==
  /\ pages' = m.pages
  /\ cacheLen' = m.cacheLen
  /\ numPages' = m.numPages
  /\ disk' = m.disk
  /\ log' = m.log
  /\ result' = m.err
  /\ handedOut' = m.handedOut
  /\ UNCHANGED <<fileLength, record, answer,
                 file, puts>>

\* Open(pager, dataSize)
Open ==
  /\ ~opened
  /\ Commit(OpenTable(Machine))
  /\ opened' = TRUE
  /\ dataSize' \in DataSizes
  /\ UNCHANGED <<last, stored, dupAccepted, heldCursor, ret, firstError>>

\* a panic ends the process: nothing runs after it
Insert(key, value, valueLen) ==
  /\ opened
  /\ result # "panic"
  /\ numPages < MaxPages
  /\ LET m == Execute(Machine, key, value, valueLen)
     IN /\ Commit(m)
        /\ last' = [key |-> key, value |-> value, wasStored |-> key \in DOMAIN stored,
                     calls |-> m.calls]
        /\ stored' = IF Ok(m) /\ key \notin DOMAIN stored
                     THEN (key :> value) @@ stored ELSE stored
        /\ dupAccepted' = (dupAccepted \/ (Ok(m) /\ key \in DOMAIN stored))
  /\ UNCHANGED <<opened, dataSize, heldCursor, ret, firstError>>

\* an Insert of a key that was not inserted before
InsertNew == \E key \in Keys \ DOMAIN stored : Insert(key, NewValue(key), dataSize)

\* an Insert of a key that is already stored, with another value
InsertAgain == \E key \in DOMAIN stored : Insert(key, OtherValue(key), dataSize)

\* an Insert of a value one byte short or one byte long, for a key that may
\* or may not be stored
WrongLengths == {dataSize - 1, dataSize + 1}
InsertWrongLength ==
  \E valueLen \in WrongLengths :
    Insert(MaxKey, IF MaxKey \in DOMAIN stored THEN OtherValue(MaxKey) ELSE NewValue(MaxKey),
           valueLen)

Next == Open \/ InsertNew \/ InsertAgain \/ InsertWrongLength

Spec == Init /\ [][Next]_vars

\* ---------------------------------------------------------------- a cursor on a reopened file
\* the file is written with the keys 1..n, n up to FileKeys, before it is
\* opened again
FileKeys == 5

\* an Insert of the next key, while the file is being written
InsertNext ==
  /\ fileLength = 0
  /\ Cardinality(DOMAIN stored) < FileKeys
  /\ Insert(Cardinality(DOMAIN stored) + 1, NewValue(Cardinality(DOMAIN stored) + 1),
            dataSize)

\* the number of pages of the file
FilePages ==
  IF DOMAIN disk = {} THEN 0
  ELSE 1 + CHOOSE x \in DOMAIN disk : \A y \in DOMAIN disk : y <= x

\* OpenPager on the file written: an empty cache, fileLength and numPages
\* from the length of the file
OpenPager ==
  [MachineWith(<<>>) EXCEPT !.pages = <<>>, !.cacheLen = 0,
                            !.fileLength = FilePages, !.numPages = FilePages]

\* Close, then OpenPager and Open on the file written
Reopen ==
  /\ opened
  /\ result # "panic"
  /\ fileLength = 0
  /\ LET m == OpenTable(OpenPager)
     IN /\ pages' = m.pages
        /\ cacheLen' = m.cacheLen
        /\ fileLength' = m.fileLength
        /\ numPages' = m.numPages
        /\ disk' = m.disk
        /\ log' = m.log
        /\ result' = m.err
  /\ UNCHANGED <<opened, dataSize, last, stored, dupAccepted, handedOut, heldCursor,
                 ret, firstError, record, answer,
                 file, puts>>

\* the pager after a call that does not write
PagerCommit(m) ==
  /\ pages' = m.pages
  /\ cacheLen' = m.cacheLen
  /\ numPages' = m.numPages
  /\ disk' = m.disk
  /\ UNCHANGED <<fileLength, opened, dataSize, result, log, last, stored, dupAccepted,
                 handedOut, record, answer,
                 file, puts>>

\* the reads of a Start: all succeed, or the first, second or third fails
ReadFailures == ReadOutcomes \ {OkIO}
StartPlans ==
  {<<>>} \cup {<<f>> : f \in ReadFailures} \cup {<<OkIO, f>> : f \in ReadFailures}
         \cup {<<OkIO, OkIO, f>> : f \in ReadFailures}

\* table.Start(): a new cursor unless it fails
TableStart ==
  /\ fileLength > 0
  /\ \E io \in StartPlans :
       LET r == StartIO(MachineWith(io))
       IN /\ Ok(r.m)
          /\ PagerCommit(r.m)
          /\ heldCursor' = IF r.err = Nil THEN r.c ELSE heldCursor
          /\ ret' = [NoCall EXCEPT !.op = "Start", !.err = r.err]
          /\ firstError' = IF r.err = Nil THEN Nil ELSE firstError

\* cursor.Value()
CursorValue ==
  /\ heldCursor.ok
  /\ \E out \in ReadOutcomes :
       LET r == ValueIO(MachineWith(<<out>>), heldCursor)
       IN /\ PagerCommit(r.m)
          /\ heldCursor' = r.c
          /\ ret' = [NoCall EXCEPT !.op = "Value", !.rec = r.rec, !.err = r.err,
                                   !.sticky = (heldCursor.advanceError # Nil)]
          /\ firstError' = IF firstError = Nil THEN r.c.advanceError ELSE firstError

\* cursor.Next()
CursorNext ==
  /\ heldCursor.ok
  /\ \E out \in ReadOutcomes :
       LET r == NextIO(MachineWith(<<out>>), heldCursor)
       IN /\ PagerCommit(r.m)
          /\ heldCursor' = r.c
          /\ ret' = [NoCall EXCEPT !.op = "Next",
                                   !.sticky = (heldCursor.advanceError # Nil)]
          /\ firstError' = IF firstError = Nil THEN r.c.advanceError ELSE firstError

\* cursor.End()
CursorEnd ==
  /\ heldCursor.ok
  /\ ret' = [NoCall EXCEPT !.op = "End", !.end = End(heldCursor),
                           !.sticky = (heldCursor.advanceError # Nil)]
  /\ UNCHANGED <<pages, cacheLen, numPages, disk, fileLength, opened, dataSize, result,
                 log, last, stored, dupAccepted, handedOut, heldCursor, firstError,
                 record, answer,
                 file, puts>>

\* ---------------------------------------------------------------- the pager alone
\* the pages a caller of the pager asks for, and the byte it writes to them
PagerPageNums == {0, 1}
Magic == 3

\* what a GetPage returned
Got(pageIndex, m) ==
  /\ PagerCommit(m)
  /\ ret' = [NoCall EXCEPT !.op = "GetPage", !.args = <<pageIndex>>, !.err = m.ioerr]
  /\ UNCHANGED <<heldCursor, firstError>>

\* pager.GetPage(pageIndex), on a new file
PagerGetPage ==
  /\ ~opened
  /\ \E pageIndex \in PagerPageNums, out \in ReadOutcomes :
       Got(pageIndex, GetPage(MachineWith(<<out>>), pageIndex))

\* page[offset] = magic, for an offset in the node header and one in the
\* cells, through a page reference obtained from GetPage
PagerStore ==
  /\ ~opened
  /\ \E pageIndex \in DOMAIN pages :
       /\ pages[pageIndex] = ZeroPage
       /\ PagerCommit(PutPage(Machine, pageIndex,
                              [ZeroPage EXCEPT !.parentPointer = Magic,
                                               !.cellData[0].key = Magic]))
       /\ ret' = [NoCall EXCEPT !.op = "store"]
  /\ UNCHANGED <<heldCursor, firstError>>

\* What a sync returned.  The caller touches a page (a GetPage of a cached
\* page changes nothing) between two syncs.
SyncOps == {"sync1", "sync2", "sync3"}
Synced(op, args, m) ==
  /\ ret.op \notin SyncOps
  /\ PagerCommit(m)
  /\ ret' = [NoCall EXCEPT !.op = op, !.args = args, !.err = m.ioerr,
                           !.attempts = m.attempts]
  /\ UNCHANGED <<heldCursor, firstError>>

\* pager.sync1(p1)
PagerSync1 ==
  /\ ~opened
  /\ \E p1 \in PagerPageNums, o1 \in FlushOutcomes :
       Synced("sync1", <<p1>>, sync1(MachineWith(<<o1>>), p1))

\* pager.sync2(p1, p2)
PagerSync2 ==
  /\ ~opened
  /\ \E p1 \in PagerPageNums, p2 \in PagerPageNums,
        o1 \in FlushOutcomes, o2 \in FlushOutcomes :
       Synced("sync2", <<p1, p2>>, sync2(MachineWith(<<o1, o2>>), p1, p2))

\* pager.sync3(p1, p2, p3)
PagerSync3 ==
  /\ ~opened
  /\ \E p1 \in PagerPageNums, p2 \in PagerPageNums, p3 \in PagerPageNums,
        o1 \in FlushOutcomes, o2 \in FlushOutcomes, o3 \in FlushOutcomes :
       Synced("sync3", <<p1, p2, p3>>, sync3(MachineWith(<<o1, o2, o3>>), p1, p2, p3))

PagerCalls == PagerGetPage \/ PagerStore \/ PagerSync1 \/ PagerSync2 \/ PagerSync3

PagerSpec == Init /\ [][PagerCalls]_vars

CursorCalls == Open \/ InsertNext \/ Reopen \/ TableStart \/ CursorValue \/ CursorNext \/ CursorEnd

CursorSpec == Init /\ [][CursorCalls]_vars

\* ---------------------------------------------------------------- observers
\* The records a traversal yields: Table.Start, then Value and Next until
\* End, as cursorConsume does.  A traversal longer than every record of every
\* page is in a cycle of the leaf chain and is cut there with NoRecord.
RECURSIVE scanFrom(_, _, _)
scanFrom(pgs, c, n) ==
  IF ~c.ok THEN <<NoRecord>>
  ELSE IF End(c) THEN <<>>
  ELSE IF n > MaxPages * (LeafMaxCells + 2) THEN <<NoRecord>>
  ELSE <<Value(pgs, c)>> \o scanFrom(pgs, Next_(pgs, c), n + 1)

Scan == scanFrom(pages, Start(pages), 0)

StrictlyIncreasing(seq) == \A i \in 1..(Len(seq) - 1) : seq[i].key < seq[i + 1].key

\* what Find(k) followed by Cursor.Value() returns
Lookup(k) == Value(pages, Find(pages, k))

Leaves == {p \in DOMAIN pages : pages[p].isLeaf}
Branches == {p \in DOMAIN pages : ~pages[p].isLeaf}

LeafKeys(p) == {pages[p].cellData[i].key : i \in 0..(pages[p].numCells - 1)}

\* the child pages of a branch: its cell children and its rightChild
Children(p) ==
  {pages[p].cells[i].child : i \in 0..(pages[p].numCells - 1)} \cup {pages[p].link}

\* the keys stored in the leaves under page p
RECURSIVE SubtreeKeys(_, _)
SubtreeKeys(p, depth) ==
  IF p \notin DOMAIN pages \/ depth > MaxDepth THEN {}
  ELSE IF pages[p].isLeaf THEN LeafKeys(p)
  ELSE UNION {SubtreeKeys(c, depth + 1) : c \in Children(p)}

SetMax(S) == CHOOSE x \in S : \A y \in S : y <= x

\* the pages the leaf chain visits from page p on, in order
RECURSIVE chainFrom(_, _)
chainFrom(p, n) ==
  IF n > MaxPages + 2 \/ p \notin DOMAIN pages THEN <<>>
  ELSE IF pages[p].link = 0 THEN <<p>>
  ELSE <<p>> \o chainFrom(pages[p].link, n + 1)

\* the leftmost leaf: the one Start reaches
Chain == IF Start(pages).ok THEN chainFrom(Start(pages).pageNum, 0) ELSE <<>>

\* the last operation returned (a panic does not return)
Completed == opened /\ result # "panic"
\* every stored key was inserted once
DistinctInserts == Completed /\ ~dupAccepted
BranchSplit == \E p \in Branches : p # 0

\* ---------------------------------------------------------------- claims
\* C1: after successful inserts of distinct keys, a traversal from Start
\* yields keys in strictly increasing order.
C1_OrderedScan == DistinctInserts => StrictlyIncreasing(Scan)

\* C2: after an Insert(k, v) that returned success, Find(k) and Value()
\* return exactly (k, v).
C2_RoundTrip ==
  (Completed /\ result = "ok" /\ last.key # 0)
    => Lookup(last.key) = [key |-> last.key, value |-> last.value]

\* C3: after n distinct keys were inserted, a traversal yields exactly n
\* records, every inserted key once with the value it was inserted with.
C3_ScanIsStored ==
  DistinctInserts =>
    /\ Len(Scan) = Cardinality(DOMAIN stored)
    /\ \A k \in DOMAIN stored :
         \E i \in 1..Len(Scan) : Scan[i] = [key |-> k, value |-> stored[k]]

\* six distinct keys are stored and a branch other than the root exists
C3_Witness ==
  /\ DistinctInserts
  /\ Cardinality(DOMAIN stored) >= 6
  /\ BranchSplit
  /\ Len(Scan) = Cardinality(DOMAIN stored)

\* C4: an Insert (of a value of the table's length) of a key that is already
\* stored fails with the duplicate-key error and Find(k).Value() still
\* returns the value first stored.
C4_DuplicateRejected ==
  (Completed /\ last.wasStored /\ result # "invalid") =>
    /\ result = "dup"
    /\ Lookup(last.key) = [key |-> last.key, value |-> stored[last.key]]

\* C5: in every branch, each cell key is the maximum key under that cell's
\* child and every key under rightChild is greater than every cell key.
C5_BranchKeysAreMaxima ==
  Completed =>
    \A b \in Branches :
      /\ \A i \in 0..(pages[b].numCells - 1) :
           LET ks == SubtreeKeys(pages[b].cells[i].child, 0)
           IN ks # {} /\ pages[b].cells[i].key = SetMax(ks)
      /\ \A k \in SubtreeKeys(pages[b].link, 0) :
           \A i \in 0..(pages[b].numCells - 1) : k > pages[b].cells[i].key

\* C6: in every branch the keys of cells 0..numCells-1 are strictly increasing.
C6_BranchKeysIncrease ==
  Completed =>
    \A b \in Branches :
      \A i \in 0..(pages[b].numCells - 2) :
        pages[b].cells[i].key < pages[b].cells[i + 1].key

\* C7: the leaf chain from the leftmost leaf visits every leaf exactly once,
\* in ascending key order, and ends at a leaf whose nextLeaf is 0.
C7_LeafChain ==
  Completed =>
    /\ {Chain[i] : i \in 1..Len(Chain)} = Leaves
    /\ Len(Chain) = Cardinality(Leaves)
    /\ pages[Chain[Len(Chain)]].link = 0
    /\ \A i \in 1..(Len(Chain) - 1) :
         \A a \in LeafKeys(Chain[i]), b \in LeafKeys(Chain[i + 1]) : a < b

\* C8: every non-root node's parentPointer names a branch that has the node
\* as a cell child or as its rightChild.
C8_ParentPointers ==
  Completed =>
    \A p \in DOMAIN pages :
      ~pages[p].isRoot =>
        /\ pages[p].parentPointer \in Branches
        /\ p \in Children(pages[p].parentPointer)

\* a branch split has given leaves and branches a parent other than the root
C8_Witness ==
  /\ Completed
  /\ Cardinality(Branches) >= 4
  /\ \E p \in Leaves : pages[p].parentPointer # 0
  /\ \E b \in Branches : ~pages[b].isRoot

C10_MutateBeforeSync ==
  \A i \in 1..Len(log), j \in 1..Len(log) :
    (log[i][1] = "flush" /\ log[j][1] = "mut") => j < i

\* C10, amended: within one Insert that returns success every mutation of a
\* page is followed by a flush of that page; mutations of other pages may
\* follow a flush (a split flushes its two halves before the parent changes).
C10_MutateBeforeOwnSync ==
  (opened /\ result = "ok") =>
    \A j \in 1..Len(log) :
      log[j][1] = "mut" =>
        \E i \in (j + 1)..Len(log) : log[i] = <<"flush", log[j][2]>>

\* a successful Insert whose log has a mutation after a flush
C10_Witness ==
  /\ opened /\ result = "ok"
  /\ \E i \in 1..Len(log), j \in 1..Len(log) :
       i < j /\ log[i][1] = "flush" /\ log[j][1] = "mut"

\* C11: after a successful Open, at every operation boundary page 0 is the
\* root (Table.rootPageNum is the constant 0 that Find starts from), page 0
\* has isRoot = TRUE and no other page has.
C11_RootStability ==
  Completed => /\ 0 \in DOMAIN pages
               /\ \A p \in DOMAIN pages : pages[p].isRoot <=> (p = 0)

\* the root leaf and later the root branch have split
C11_Witness ==
  /\ Completed
  /\ ~pages[0].isLeaf
  /\ \E b \in Branches : b # 0 /\ pages[b].parentPointer = 0
  /\ \A p \in DOMAIN pages : pages[p].isRoot <=> (p = 0)

\* The last Insert split a leaf: leafNode.insert stores the new right leaf and
\* then the left leaf before its first sync, an Insert into a leaf with room
\* stores one page and syncs it.
LeafSplitDone == opened /\ result = "ok" /\ Len(log) >= 2 /\ log[2][1] = "mut"
\* the new (right) leaf of that split
SplitRightLeaf == log[1][2]
\* the old (left) leaf of that split: the page that was full, or the copy of
\* it when the full leaf was the root
SplitLeftLeaf ==
  IF pages[log[2][2]].isLeaf THEN log[2][2] ELSE pages[log[2][2]].cells[0].child

FourKeysCapacity3 ==
  /\ Completed /\ ~dupAccepted
  /\ leafGetMaxNumCells = 3
  /\ Cardinality(DOMAIN stored) = 4

\* C13: with leaf capacity 3, after the fourth key went into the full root
\* leaf there are exactly two leaves with two keys each, the four keys in
\* order, and page 0 is a root branch with one cell: its child is the left
\* leaf, its key the left leaf's maximum, and rightChild is the right leaf.
C13_RootLeafSplit ==
  FourKeysCapacity3 =>
    LET root == pages[0]
        left == root.cells[0].child
        right == root.link
    IN /\ ~root.isLeaf /\ root.isRoot /\ root.numCells = 1
       /\ Leaves = {left, right} /\ left # right
       /\ pages[left].numCells = 2 /\ pages[right].numCells = 2
       /\ LeafKeys(left) \cup LeafKeys(right) = DOMAIN stored
       /\ \A a \in LeafKeys(left), b \in LeafKeys(right) : a < b
       /\ StrictlyIncreasing(Scan) /\ Len(Scan) = 4
       /\ root.cells[0].key = SetMax(LeafKeys(left))
       /\ pages[left].link = right /\ pages[right].link = 0

\* the fourth key was the smallest of the four: it went to the left leaf
C13_Witness ==
  /\ FourKeysCapacity3
  /\ result = "ok"
  /\ \A k \in DOMAIN stored : last.key <= k
  /\ last.key \in LeafKeys(pages[0].cells[0].child)

\* ---------------------------------------------------------------- C14
\* the keys looked up: the inserted keys, one below and one above them
FindKeys == 0..(MaxKey + 1)
\* the number of cells of leaf p whose key is smaller than key
SmallerInLeaf(p, key) ==
  Cardinality({i \in 0..(pages[p].numCells - 1) : pages[p].cellData[i].key < key})

\* C14: Find(key) returns a cursor on a leaf page; its cellNum is the index
\* of the cell holding key in that leaf when the key is there, and otherwise
\* the number of cells of that leaf whose key is smaller than key.
C14_FindPosition ==
  Completed =>
    \A key \in FindKeys :
      LET c == Find(pages, key)
      IN /\ c.ok
         /\ c.pageNum \in Leaves
         /\ IF key \in LeafKeys(c.pageNum)
            THEN /\ c.cellNum < pages[c.pageNum].numCells
                 /\ pages[c.pageNum].cellData[c.cellNum].key = key
            ELSE c.cellNum = SmallerInLeaf(c.pageNum, key)

\* keys 3, 5, 7 in the root leaf: Find(4) is the slot between 3 and 5, and
\* Find(5) the cell of 5
C14_Witness ==
  /\ Completed
  /\ Leaves = {0}
  /\ LeafKeys(0) = {3, 5, 7}
  /\ Find(pages, 4) = LeafCursor(0, 1)
  /\ Find(pages, 5).cellNum = 1

\* ---------------------------------------------------------------- C15
\* C15: after every completed Insert the keys of cells 0..numCells-1 of
\* every leaf are strictly increasing.
C15_LeafKeysIncrease ==
  Completed =>
    \A p \in Leaves :
      \A i \in 1..(pages[p].numCells - 1) :
        pages[p].cellData[i - 1].key < pages[p].cellData[i].key

\* two leaves after a split, each with two keys, the last Insert having put
\* its key in front of a larger one
C15_Witness ==
  /\ Completed
  /\ result = "ok"
  /\ \E p \in Leaves, q \in Leaves :
       /\ p # q
       /\ pages[p].numCells >= 2
       /\ pages[q].numCells >= 2
       /\ \E i \in 0..(pages[p].numCells - 2) : pages[p].cellData[i].key = last.key

\* ---------------------------------------------------------------- C16
\* C16: an Insert of a value whose length is not dataSize fails, and it
\* leaves every page, the page cache, the file and NumPages as they were.
C16_WrongLengthRejected ==
  [][InsertWrongLength =>
       /\ result' = "invalid"
       /\ UNCHANGED <<pages, cacheLen, numPages, disk, stored>>
       /\ log' = <<>>]_vars

\* a value of the wrong length was refused for a key that is not stored, on
\* a tree of several pages
C16_Witness ==
  /\ result = "invalid"
  /\ ~last.wasStored
  /\ last.key = MaxKey
  /\ numPages >= 3
  /\ log = <<>>

\* ---------------------------------------------------------------- C18
\* C18: every page number GetUnusedPageNum returns during an Insert is
\* numPages at the call and was not in use, and no page number is returned
\* twice (so the two of a root split differ).
C18_FreshPages ==
  /\ \A i \in 1..Len(handedOut) :
       /\ handedOut[i].pageNum = handedOut[i].numPages
       /\ ~handedOut[i].inUse
  /\ \A i \in 1..Len(handedOut), j \in 1..Len(handedOut) :
       i # j => handedOut[i].pageNum # handedOut[j].pageNum

\* the split of a root branch: after the pages handed out by the leaf splits
\* before it, the last two are the new sibling (the root's rightChild) and
\* then the copy of the root (the child of its one cell)
C18_Witness ==
  /\ Completed
  /\ result = "ok"
  /\ BranchSplit
  /\ Len(handedOut) >= 5
  /\ handedOut[Len(handedOut)].pageNum = handedOut[Len(handedOut) - 1].pageNum + 1
  /\ pages[0].numCells = 1
  /\ pages[0].cells[0].child = handedOut[Len(handedOut)].pageNum
  /\ pages[0].link = handedOut[Len(handedOut) - 1].pageNum

\* ---------------------------------------------------------------- C17
\* C17: once a cursor has recorded an error, it keeps that first error,
\* every later Value returns it, End returns true, and Next changes no field
\* of the cursor.
C17_StickyError ==
  /\ [](firstError # Nil =>
          /\ heldCursor.advanceError = firstError
          /\ End(heldCursor)
          /\ (ret.op = "Value" => ret.err = firstError)
          /\ ((ret.op = "End" /\ ret.sticky) => ret.end))
  /\ [][(CursorNext /\ heldCursor.advanceError # Nil) => heldCursor' = heldCursor]_vars

\* a Value called on a cursor that had recorded an error before, on its way
\* through the leaves and away from the end of the table
C17_Witness ==
  /\ ret.op = "Value"
  /\ ret.sticky
  /\ ret.err = firstError
  /\ firstError # Nil
  /\ ~heldCursor.endOfTable
  /\ heldCursor.pageNum # 0

\* ---------------------------------------------------------------- C19
\* C19: a Flush whose write is a short one returns an error, so a sync that
\* returns nil has written every one of its pages in full: the file holds
\* them as the cache does.
C19_ShortWriteIsError ==
  (ret.op \in SyncOps /\ ret.err = Nil) =>
    \A i \in 1..Len(ret.attempts) :
      /\ ~ret.attempts[i].short
      /\ disk[ret.attempts[i].pageNum] = pages[ret.attempts[i].pageNum]

\* ---------------------------------------------------------------- C20
\* the Flush calls that returned an error, in the order they were made
IsFailed(a) == a.err # Nil
Failed(attempts) == SelectSeq(attempts, IsFailed)

\* the errors of failed Flush calls, written one after the other with ", "
RECURSIVE Listed(_)
Listed(fs) ==
  IF Len(fs) = 1 THEN fs[1].err ELSE fs[1].err \o <<",">> \o Listed(Tail(fs))

\* how often the token tok is in the text of an error
Count(err, tok) == Cardinality({i \in 1..Len(err) : err[i] = tok})

\* C20: sync2 and sync3 call Flush for each of their pages, in argument
\* order, whatever the earlier ones returned; they return nil iff every Flush
\* did, and otherwise one error that names "sync error" once and lists the
\* errors of the failed Flush calls in that order.
C20_SyncErrors ==
  ret.op \in {"sync2", "sync3"} =>
    /\ Len(ret.attempts) = Len(ret.args)
    /\ \A i \in 1..Len(ret.args) : ret.attempts[i].pageNum = ret.args[i]
    /\ (ret.err = Nil) <=> (Failed(ret.attempts) = <<>>)
    /\ Failed(ret.attempts) # <<>> =>
         /\ ret.err = (IF Len(Failed(ret.attempts)) = 1 THEN <<"sync error", ":">>
                       ELSE <<"sync error", "(multiple errors)", ":">>)
                      \o Listed(Failed(ret.attempts))
         /\ Count(ret.err, "sync error") = 1

\* a sync3 whose first Flush fails in its write and whose third fails on a
\* page that is not in the cache, the second one writing its page
C20_Witness ==
  /\ ret.op = "sync3"
  /\ ret.attempts[1].err = <<"error writing page", ":", "EIO">>
  /\ ret.attempts[2].err = Nil
  /\ ret.attempts[3].err # Nil
  /\ ret.attempts[3].err # ret.attempts[1].err
  /\ ret.err = <<"sync error", "(multiple errors)", ":">> \o ret.attempts[1].err
                 \o <<",">> \o ret.attempts[3].err

\* ---------------------------------------------------------------- C21
\* C21: a GetPage that returns an error leaves numPages as it was, and with
\* it what GetUnusedPageNum returns.
C21_FailedGetPageKeepsNumPages ==
  [][(PagerGetPage /\ ret'.err # Nil) =>
       /\ numPages' = numPages
       /\ GetUnusedPageNum([numPages |-> numPages']) = GetUnusedPageNum(Machine)]_vars

\* GetPage(0) failed on a new file: the cache slice has grown to one slot,
\* the slot is empty and numPages is still 0, where a GetPage(0) that
\* succeeds makes it 1
C21_Witness ==
  /\ ret.op = "GetPage"
  /\ ret.args = <<0>>
  /\ ret.err # Nil
  /\ cacheLen = 1
  /\ 0 \notin DOMAIN pages
  /\ numPages = 0

\* ---------------------------------------------------------------- C22
\* C22: opening the file again writes nothing and touches no page; when the
\* file is a fresh one that was opened as a table and closed, the pager has
\* numPages = 1 and page 0 of the file is the empty root leaf.
C22_ReopenFresh ==
  [][Reopen =>
       /\ disk' = disk
       /\ log' = <<>>
       /\ pages' = <<>>
       /\ (DOMAIN stored = {} =>
             /\ numPages' = 1
             /\ disk'[0].isLeaf
             /\ disk'[0].isRoot
             /\ disk'[0].numCells = 0)]_vars

\* the fresh file opened again, and page 0 read from it by a Start
C22_Witness ==
  /\ fileLength = 1
  /\ numPages = 1
  /\ DOMAIN stored = {}
  /\ heldCursor.ok
  /\ heldCursor.endOfTable
  /\ 0 \in DOMAIN pages
  /\ pages[0] = disk[0]
  /\ pages[0].isLeaf /\ pages[0].isRoot /\ pages[0].numCells = 0

\* ================================================================ predicates
\* ---------------------------------------------------------------- typed values
\* An unsigned integer is held as its bytes, least significant first, so
\* that every width up to 64 bits is exact.  A value is [type, val]: val is
\* a BOOLEAN for BOOL and the bytes for U8, U16, U32 and U64.
ReturnTypes == {"BOOL", "U8", "U16", "U32", "U64"}
uintTypes == <<"BOOL", "U8", "U16", "U32", "U64">>

\* the size in bytes of a value of an unsigned type
Bytes(type) ==
  CASE type = "U8" -> 1
    [] type = "U16" -> 2
    [] type = "U32" -> 4
    [] type = "U64" -> 8

Zeros(n) == [i \in 1..n |-> 0]

Reverse(b) == [i \in 1..Len(b) |-> b[Len(b) + 1 - i]]

\* uintN(n) for a small n: the bytes of n, least significant first
Uint(type, n) ==
  [type |-> type,
   val |-> [i \in 1..Bytes(type) |->
              CASE i = 1 -> n % 256
                [] i = 2 -> (n \div 256) % 256
                [] i = 3 -> (n \div 65536) % 256
                [] i = 4 -> (n \div 16777216) % 256
                [] OTHER -> 0]]

Bool(b) == [type |-> "BOOL", val |-> b]

\* a < b on two unsigned integers of the same width
Less(a, b) ==
  \E i \in 1..Len(a) :
    /\ a[i] < b[i]
    /\ \A j \in (i + 1)..Len(a) : a[j] = b[j]

\* ---------------------------------------------------------------- errors of matchers
ErrBytesTooSmall == errorsNew("data too small")
ErrJumpOffsetOutOfRange == errorsNew("jump offset out of range")

\* the error a switch returns in its default branch
unhandledEnum(name) == <<"unhandled", name>>

\* a failed type assertion, or a slice bound out of range: the goroutine panics
Panic(what) == <<"panic", what>>

IsPanic(err) == err # Nil /\ err[1] = "panic"

\* the error at the bottom of a chain of wraps: what follows the last ":"
Cause(err) ==
  LET colons == {i \in 1..Len(err) : err[i] = ":"}
      from == IF colons = {} THEN 1 ELSE 1 + CHOOSE i \in colons : \A j \in colons : j <= i
  IN SubSeq(err, from, Len(err))

\* ---------------------------------------------------------------- value getters
NoValue == [type |-> "UNKNOWN", val |-> <<>>]

Loaded(v) == [val |-> v, err |-> Nil]
LoadFailed(v, err) == [val |-> v, err |-> err]

\* binary.LittleEndian.UintN(bytes): bytes[0] is the least significant
GetUle(type, bytes) ==
  IF Len(bytes) < Bytes(type)
  THEN LoadFailed(Uint(type, 0), ErrBytesTooSmall)
  ELSE Loaded([type |-> type, val |-> SubSeq(bytes, 1, Bytes(type))])

\* a big-endian getter that reads bytes[0] as the least significant
GetUbe_asLe(type, bytes) ==
  IF Len(bytes) < Bytes(type)
  THEN LoadFailed(Uint(type, 0), ErrBytesTooSmall)
  ELSE Loaded([type |-> type, val |-> SubSeq(bytes, 1, Bytes(type))])

\* binary.BigEndian.UintN(bytes): bytes[0] is the most significant
GetUbe(type, bytes) ==
  IF Len(bytes) < Bytes(type)
  THEN LoadFailed(Uint(type, 0), ErrBytesTooSmall)
  ELSE Loaded([type |-> type, val |-> Reverse(SubSeq(bytes, 1, Bytes(type)))])

GetU64le(bytes) == GetUle("U64", bytes)
GetU64be(bytes) == GetUbe("U64", bytes)
GetU32le(bytes) == GetUle("U32", bytes)
GetU32be(bytes) == GetUbe("U32", bytes)
GetU16le(bytes) == GetUle("U16", bytes)
GetU16be(bytes) == GetUbe("U16", bytes)
GetU8(bytes) == GetUle("U8", bytes)

\* ---------------------------------------------------------------- upscalers
\* the keys of upscaleFunctionMap after init(): <<from, to>>
upscaleFunctionMap ==
  {<<"BOOL", "U8">>, <<"BOOL", "U16">>, <<"BOOL", "U32">>, <<"BOOL", "U64">>,
   <<"U8", "U16">>, <<"U8", "U32">>, <<"U8", "U64">>,
   <<"U16", "U32">>, <<"U16", "U64">>,
   <<"U32", "U64">>}

identityUpscale == [from |-> "any", to |-> "any"]
registered(from, to) == [from |-> from, to |-> to]
NoUpscale == [from |-> "nil", to |-> "nil"]

\* upscaleFunc(val): the registered conversions assert the type of val
Upscale(f, v) ==
  CASE f = identityUpscale -> v
    [] f = NoUpscale -> [type |-> "panic", val |-> <<>>]
    [] v.type # f.from -> [type |-> "panic", val |-> <<>>]
    [] f.from = "BOOL" -> IF v.val THEN Uint(f.to, 1) ELSE Uint(f.to, 0)
    [] OTHER -> [type |-> f.to, val |-> v.val \o Zeros(Bytes(f.to) - Bytes(f.from))]

\* getUpscaler that finds the conversion of B to A and does not return it
getUpscaler_leftOnly(typeA, typeB) ==
  CASE typeA = typeB ->
         [a |-> identityUpscale, b |-> identityUpscale, type |-> typeA, err |-> Nil]
    [] typeA # typeB /\ <<typeA, typeB>> \in upscaleFunctionMap ->
         [a |-> registered(typeA, typeB), b |-> identityUpscale, type |-> typeB, err |-> Nil]
    [] typeA # typeB /\ <<typeA, typeB>> \notin upscaleFunctionMap
         /\ <<typeB, typeA>> \in upscaleFunctionMap ->
         [a |-> identityUpscale, b |-> identityUpscale, type |-> typeA, err |-> Nil]
    [] OTHER ->
         [a |-> NoUpscale, b |-> NoUpscale, type |-> "UNKNOWN",
          err |-> errorsNew("cannot upscale")]

\* getUpscaler(typeA, typeB)
getUpscaler(typeA, typeB) ==
  CASE typeA = typeB ->
         [a |-> identityUpscale, b |-> identityUpscale, type |-> typeA, err |-> Nil]
    [] typeA # typeB /\ <<typeA, typeB>> \in upscaleFunctionMap ->
         [a |-> registered(typeA, typeB), b |-> identityUpscale, type |-> typeB, err |-> Nil]
    [] typeA # typeB /\ <<typeA, typeB>> \notin upscaleFunctionMap
         /\ <<typeB, typeA>> \in upscaleFunctionMap ->
         [a |-> identityUpscale, b |-> registered(typeB, typeA), type |-> typeA, err |-> Nil]
    [] OTHER ->
         [a |-> NoUpscale, b |-> NoUpscale, type |-> "UNKNOWN",
          err |-> errorsNew("cannot upscale")]

\* ---------------------------------------------------------------- binary operations
BinaryOpCodes == {"UNKNOWN", "EQ", "NEQ", "LESS", "LESS_EQ", "GREATER", "GREATER_EQ"}
booleanOps == {"EQ", "NEQ", "LESS", "LESS_EQ", "GREATER", "GREATER_EQ"}

Done(v) == Loaded(v)
Refused(err) == LoadFailed(NoValue, err)

boolInt(b) == IF b THEN 1 ELSE 0

\* performOpU64, performOpU32, performOpU16, performOpU8
performOpU(name, a, b, op) ==
  CASE op = "EQ" -> Done(Bool(a = b))
    [] op = "NEQ" -> Done(Bool(a # b))
    [] op = "LESS" -> Done(Bool(Less(a, b)))
    [] op = "LESS_EQ" -> Done(Bool(~Less(b, a)))
    [] op = "GREATER" -> Done(Bool(Less(b, a)))
    [] op = "GREATER_EQ" -> Done(Bool(~Less(a, b)))
    [] OTHER -> Refused(unhandledEnum(name))

performOpBool(a, b, op) ==
  CASE op = "EQ" -> Done(Bool(a = b))
    [] op = "NEQ" -> Done(Bool(a # b))
    [] op = "LESS" -> Done(Bool(boolInt(a) < boolInt(b)))
    [] op = "LESS_EQ" -> Done(Bool(boolInt(a) <= boolInt(b)))
    [] op = "GREATER" -> Done(Bool(boolInt(a) > boolInt(b)))
    [] op = "GREATER_EQ" -> Done(Bool(boolInt(a) >= boolInt(b)))
    [] OTHER -> Refused(unhandledEnum("bool op code"))

\* performBinaryOperation: valueA.(T) and valueB.(T) panic on another type
performBinaryOperation(valueType, valueA, valueB, op) ==
  CASE valueType \notin ReturnTypes -> Refused(unhandledEnum("binary op value type"))
    [] valueType \in ReturnTypes /\ (valueA.type # valueType \/ valueB.type # valueType) ->
         Refused(Panic("interface conversion"))
    [] valueType = "U64" /\ valueA.type = "U64" /\ valueB.type = "U64" ->
         performOpU("u64 op code", valueA.val, valueB.val, op)
    [] valueType = "U32" /\ valueA.type = "U32" /\ valueB.type = "U32" ->
         performOpU("u32 op code", valueA.val, valueB.val, op)
    [] valueType = "U16" /\ valueA.type = "U16" /\ valueB.type = "U16" ->
         performOpU("u16 op code", valueA.val, valueB.val, op)
    [] valueType = "U8" /\ valueA.type = "U8" /\ valueB.type = "U8" ->
         performOpU("u16 op code", valueA.val, valueB.val, op)
    [] valueType = "BOOL" /\ valueA.type = "BOOL" /\ valueB.type = "BOOL" ->
         performOpBool(valueA.val, valueB.val, op)

getReturnType(returnType, code) == IF code \in booleanOps THEN "BOOL" ELSE returnType

\* ---------------------------------------------------------------- jumps
\* the width of int in the build: 64 bits on amd64 and arm64, 32 bits on 386
\* and arm
IntSizes == {32, 64}

Jumped(bytes) == [bytes |-> bytes, err |-> Nil]
JumpFailed(err) == [bytes |-> <<>>, err |-> err]

\* the number an in-range offset stands for (a record is shorter than 65536)
Num(offset) == offset[1] + 256 * (IF Len(offset) > 1 THEN offset[2] ELSE 0)

\* bytes[offset:]
SliceFrom(bytes, offset) == SubSeq(bytes, Num(offset) + 1, Len(bytes))

\* jumpOffset64(offset, bytes): uint64(len(bytes)) < offset
jumpOffset64(offset, bytes) ==
  IF Less(Uint("U64", Len(bytes)).val, offset)
  THEN JumpFailed(ErrJumpOffsetOutOfRange)
  ELSE Jumped(SliceFrom(bytes, offset))

\* jumpOffset32(offset, bytes): len(bytes) < int(offset).  Where int has 32
\* bits, int(offset) is negative for an offset of 2^31 or more, the test
\* lets it through, and bytes[offset:] is out of bounds.
jumpOffset32(offset, bytes, intSize) ==
  CASE intSize = 32 /\ offset[4] >= 128 -> JumpFailed(Panic("slice bounds out of range"))
    [] ~(intSize = 32 /\ offset[4] >= 128) /\ Less(Uint("U32", Len(bytes)).val, offset) ->
         JumpFailed(ErrJumpOffsetOutOfRange)
    [] OTHER -> Jumped(SliceFrom(bytes, offset))

\* jumpOffset16(offset, bytes): len(bytes) < int(offset)
jumpOffset16(offset, bytes) ==
  IF Less(Uint("U16", Len(bytes)).val, offset)
  THEN JumpFailed(ErrJumpOffsetOutOfRange)
  ELSE Jumped(SliceFrom(bytes, offset))

\* jumpOffset8(offset, bytes): len(bytes) < int(offset)
jumpOffset8(offset, bytes) ==
  IF Less(Uint("U8", Len(bytes)).val, offset)
  THEN JumpFailed(ErrJumpOffsetOutOfRange)
  ELSE Jumped(SliceFrom(bytes, offset))

JumpKinds == {"offset", "u64le", "u64be", "u32le", "u32be", "u16le", "u16be", "u8"}

\* the end of a jump: its error wrapped (a panic is no error value), or the
\* bytes jumped to
Arrived(newBytes, msg) ==
  IF newBytes.err # Nil /\ ~IsPanic(newBytes.err)
  THEN JumpFailed(wrap(newBytes.err, msg))
  ELSE newBytes

\* JumpOffset(offset)
JumpOffset(offset, bytes) ==
  Arrived(jumpOffset64(Uint("U64", offset).val, bytes), "unable to jump to address")

\* the getter an indirect jump decodes its address with
JumpGetter(kind, bytes) ==
  CASE kind = "u64le" -> GetU64le(bytes)
    [] kind = "u64be" -> GetU64be(bytes)
    [] kind = "u32le" -> GetU32le(bytes)
    [] kind = "u32be" -> GetU32be(bytes)
    [] kind = "u16le" -> GetU16le(bytes)
    [] kind = "u16be" -> GetU16be(bytes)
    [] kind = "u8" -> GetU8(bytes)

\* the second jump of an indirect jump, by the width of the address
JumpToAddr(jumpAddr, bytes, intSize) ==
  CASE jumpAddr.type = "U64" -> jumpOffset64(jumpAddr.val, bytes)
    [] jumpAddr.type = "U32" -> jumpOffset32(jumpAddr.val, bytes, intSize)
    [] jumpAddr.type = "U16" -> jumpOffset16(jumpAddr.val, bytes)
    [] jumpAddr.type = "U8" -> jumpOffset8(jumpAddr.val, bytes)

\* the message of an address that cannot be decoded, by its width
decodeMessage(type) ==
  CASE type = "U64" -> "unable to decode uint64 jump address"
    [] type = "U32" -> "unable to decode uint32 jump address"
    [] type = "U16" -> "unable to decode uint16 jump address"
    [] type = "U8" -> "unable to decode uint8 jump address"

\* JumpToU64le(offset) and the others, once the address is decoded
JumpToDecoded(jumpAddr, bytes, intSize) ==
  IF jumpAddr.err # Nil
  THEN JumpFailed(wrap(jumpAddr.err, decodeMessage(jumpAddr.val.type)))
  ELSE Arrived(JumpToAddr(jumpAddr.val, bytes, intSize), "unable to jump to address")

\* JumpToU64le(offset) and the others, once the jump to the offset is made
JumpToJumped(kind, jumpedBytes, bytes, intSize) ==
  IF jumpedBytes.err # Nil
  THEN JumpFailed(wrap(jumpedBytes.err, "unable to jump to address"))
  ELSE JumpToDecoded(JumpGetter(kind, jumpedBytes.bytes), bytes, intSize)

\* JumpToU64le(offset), JumpToU64be, JumpToU32le, JumpToU32be, JumpToU16le,
\* JumpToU16be, JumpToU8
JumpTo(kind, offset, bytes, intSize) ==
  JumpToJumped(kind, jumpOffset64(Uint("U64", offset).val, bytes), bytes, intSize)

\* jumper.Jump(bytes) for the jumper jumpToJumper makes of a Jump
Jump(j, bytes, intSize) ==
  IF j.kind = "offset"
  THEN JumpOffset(j.offset, bytes)
  ELSE JumpTo(j.kind, j.offset, bytes, intSize)

\* ---------------------------------------------------------------- expressions
\* An Expression is one of
\*   [kind |-> "scalar", value |-> a typed value, or NoValue when unset]
\*   [kind |-> "value", jump |-> [kind, offset], type |-> a ValueType]
\*   [kind |-> "binop", left |-> Expression, op |-> BinaryOpCode, right |-> Expression]
ValueTypes == {"U64LE", "U64BE", "U32LE", "U32BE", "U16LE", "U16BE", "U8"}

Scalar(v) == [kind |-> "scalar", value |-> v]
ValueAt(jump, type) == [kind |-> "value", jump |-> jump, type |-> type]
BinaryOperation(l, code, r) == [kind |-> "binop", left |-> l, op |-> code, right |-> r]
Offset(offset) == [kind |-> "offset", offset |-> offset]

Typed(type) == [type |-> type, err |-> Nil]
Untyped(err) == [type |-> "UNKNOWN", err |-> err]

\* scalarToEvaluator: the return type
scalarToEvaluator(s) ==
  IF s.value.type \in {"BOOL", "U32", "U64"}
  THEN Typed(s.value.type)
  ELSE Untyped(<<"unhandled", "scalar type">>)

\* valueToEvaluator: the return type of a ValueType
valueReturnType(type) ==
  CASE type \in {"U64LE", "U64BE"} -> "U64"
    [] type \in {"U32LE", "U32BE"} -> "U32"
    [] type \in {"U16LE", "U16BE"} -> "U16"
    [] type = "U8" -> "U8"
    [] OTHER -> "UNKNOWN"

\* valueToEvaluator: the getter of a ValueType
valueGetter(type, bytes) ==
  CASE type = "U64LE" -> GetU64le(bytes)
    [] type = "U64BE" -> GetU64be(bytes)
    [] type = "U32LE" -> GetU32le(bytes)
    [] type = "U32BE" -> GetU32be(bytes)
    [] type = "U16LE" -> GetU16le(bytes)
    [] type = "U16BE" -> GetU16be(bytes)
    [] type = "U8" -> GetU8(bytes)

valueToEvaluator(v) ==
  CASE v.jump.kind \notin JumpKinds ->
         Untyped(wrap(<<"unhandled", "jump type">>, "invalid value jump"))
    [] v.jump.kind \in JumpKinds /\ v.type \notin ValueTypes ->
         Untyped(unhandledEnum("value type"))
    [] OTHER -> Typed(valueReturnType(v.type))

\* valueEvaluatorImplWithJump, once the value is read
GotValue(gotValue) ==
  IF gotValue.err # Nil
  THEN Refused(wrap(gotValue.err, "unable to run matcher"))
  ELSE gotValue

\* valueEvaluatorImplWithJump, once the jump is made
GetJumped(v, jumped) ==
  IF IsPanic(jumped.err) THEN Refused(jumped.err)
  ELSE IF jumped.err # Nil THEN Refused(wrap(jumped.err, "unable to jump"))
  ELSE GotValue(valueGetter(v.type, jumped.bytes))

\* valueEvaluatorImplWithJump
valueEvaluatorImplWithJump(v, bytes, intSize) ==
  GetJumped(v, Jump(v.jump, bytes, intSize))

RECURSIVE expressionToEvaluator(_)

\* binaryOperationEvaluator, once the upscaler is looked up
UpscaledType(op, up) ==
  IF up.err # Nil
  THEN Untyped(wrap(up.err, "invalid expression"))
  ELSE Typed(getReturnType(up.type, op.op))

\* binaryOperationEvaluator, once the two operands are converted
OperandsType(op, left, right) ==
  IF left.err # Nil THEN Untyped(left.err)
  ELSE IF right.err # Nil THEN Untyped(right.err)
  ELSE UpscaledType(op, getUpscaler(left.type, right.type))

\* binaryOperationEvaluator: the return type
binaryOperationEvaluator(op) ==
  OperandsType(op, expressionToEvaluator(op.left), expressionToEvaluator(op.right))

\* expressionToEvaluator, once the case of the expression is converted
Converted(r, msg) == IF r.err # Nil THEN Untyped(wrap(r.err, msg)) ELSE r

\* expressionToEvaluator: the return type, or the error
expressionToEvaluator(ex) ==
  CASE ex.kind = "scalar" ->
         Converted(scalarToEvaluator(ex), "unable to convert scalar to evaluator")
    [] ex.kind = "value" ->
         Converted(valueToEvaluator(ex), "unable to convert value to evaluator")
    [] ex.kind = "binop" ->
         Converted(binaryOperationEvaluator(ex), "unable to convert value to evaluator")
    [] OTHER -> Untyped(<<"unhandled", "expression type">>)

RECURSIVE Evaluate(_, _, _)

\* the end of the EvaluatorFunc: the error of performBinaryOperation wrapped
Performed(value) ==
  IF value.err # Nil /\ ~IsPanic(value.err)
  THEN Refused(wrap(value.err, "unable to evaluate binary expression"))
  ELSE value

\* the EvaluatorFunc, once the two operands are evaluated
Operated(op, up, leftValue, rightValue) ==
  IF leftValue.err # Nil
  THEN Refused(wrap(leftValue.err, "unable to evaluate left hand expression"))
  ELSE IF rightValue.err # Nil
  THEN Refused(wrap(rightValue.err, "unable to evaluate right hand expression"))
  ELSE Performed(performBinaryOperation(up.type, Upscale(up.a, leftValue.val),
                                        Upscale(up.b, rightValue.val), op.op))

\* the EvaluatorFunc binaryOperationEvaluator returns, with the upscaler up
BinaryEvaluate(op, up, bytes, intSize) ==
  Operated(op, up, Evaluate(op.left, bytes, intSize), Evaluate(op.right, bytes, intSize))

\* evaluator.Evaluate(bytes) for the evaluator expressionToEvaluator makes
Evaluate(ex, bytes, intSize) ==
  CASE ex.kind = "scalar" -> Done(ex.value)
    [] ex.kind = "value" -> valueEvaluatorImplWithJump(ex, bytes, intSize)
    [] ex.kind = "binop" ->
         BinaryEvaluate(ex, getUpscaler(expressionToEvaluator(ex.left).type,
                                        expressionToEvaluator(ex.right).type),
                        bytes, intSize)

\* ---------------------------------------------------------------- matchers
\* A Matcher is one of
\*   [kind |-> "MatchAnything"], [kind |-> "MatchNothing"], [kind |-> "matchesErr"]
\*   [kind |-> "expression", ex |-> Expression]     (expressionToMatcher)
\*   [kind |-> "Any", funcs |-> sequence of Matcher]
\*   [kind |-> "All", funcs |-> sequence of Matcher]
\* A Match returns [value, err, ran]: ran counts the Match calls made on
\* the matchers of the list of an Any or All.
MatchAnything == [kind |-> "MatchAnything"]
MatchNothing == [kind |-> "MatchNothing"]
matchesErr == [kind |-> "matchesErr"]
Any_(funcs) == [kind |-> "Any", funcs |-> funcs]
All(funcs) == [kind |-> "All", funcs |-> funcs]

Matched(value, ran) == [value |-> value, err |-> Nil, ran |-> ran]
MatchFailed(err, ran) == [value |-> FALSE, err |-> err, ran |-> ran]

\* the MatcherFunc expressionToMatcher returns, once the expression is
\* evaluated: value.(bool)
MatchValue(value) ==
  IF IsPanic(value.err) THEN MatchFailed(value.err, 0)
  ELSE IF value.err # Nil
  THEN MatchFailed(wrap(value.err, "error evaluating expression"), 0)
  ELSE IF value.val.type # "BOOL" THEN MatchFailed(Panic("interface conversion"), 0)
  ELSE Matched(value.val.val, 0)

\* the MatcherFunc expressionToMatcher returns
ExpressionMatch(ex, bytes, intSize) == MatchValue(Evaluate(ex, bytes, intSize))

RECURSIVE Match(_, _, _)

\* a loop of Any that goes on to the next matcher after an error
RECURSIVE AnyFrom_pastErrors(_, _, _, _)
AnyFrom_pastErrors(funcs, i, bytes, intSize) ==
  IF i > Len(funcs)
  THEN Matched(FALSE, i - 1)
  ELSE LET r == Match(funcs[i], bytes, intSize)
       IN IF r.err = Nil /\ r.value
          THEN Matched(TRUE, i)
          ELSE AnyFrom_pastErrors(funcs, i + 1, bytes, intSize)

\* a loop of All that goes on to the next matcher after an error
RECURSIVE AllFrom_pastErrors(_, _, _, _)
AllFrom_pastErrors(funcs, i, bytes, intSize) ==
  IF i > Len(funcs)
  THEN Matched(TRUE, i - 1)
  ELSE LET r == Match(funcs[i], bytes, intSize)
       IN IF r.err = Nil /\ ~r.value
          THEN Matched(FALSE, i)
          ELSE AllFrom_pastErrors(funcs, i + 1, bytes, intSize)

RECURSIVE AnyFrom(_, _, _, _)

\* the loop of Any, once funcs[i] has returned r
AnyMatched(funcs, i, bytes, intSize, r) ==
  IF IsPanic(r.err) THEN MatchFailed(r.err, i)
  ELSE IF r.err # Nil THEN MatchFailed(wrap(r.err, "unable to run matcher"), i)
  ELSE IF r.value THEN Matched(TRUE, i)
  ELSE AnyFrom(funcs, i + 1, bytes, intSize)

\* the loop of Any from funcs[i] on, after i - 1 calls
AnyFrom(funcs, i, bytes, intSize) ==
  IF i > Len(funcs)
  THEN Matched(FALSE, i - 1)
  ELSE AnyMatched(funcs, i, bytes, intSize, Match(funcs[i], bytes, intSize))

RECURSIVE AllFrom(_, _, _, _)

\* the loop of All, once funcs[i] has returned r
AllMatched(funcs, i, bytes, intSize, r) ==
  IF IsPanic(r.err) THEN MatchFailed(r.err, i)
  ELSE IF r.err # Nil THEN MatchFailed(wrap(r.err, "unable to run matcher"), i)
  ELSE IF ~r.value THEN Matched(FALSE, i)
  ELSE AllFrom(funcs, i + 1, bytes, intSize)

\* the loop of All from funcs[i] on
AllFrom(funcs, i, bytes, intSize) ==
  IF i > Len(funcs)
  THEN Matched(TRUE, i - 1)
  ELSE AllMatched(funcs, i, bytes, intSize, Match(funcs[i], bytes, intSize))

\* matcher.Match(bytes)
Match(matcher, bytes, intSize) ==
  CASE matcher.kind = "MatchAnything" -> Matched(TRUE, 0)
    [] matcher.kind = "MatchNothing" -> Matched(FALSE, 0)
    [] matcher.kind = "matchesErr" -> MatchFailed(errorsNew("always fails"), 0)
    [] matcher.kind = "expression" -> ExpressionMatch(matcher.ex, bytes, intSize)
    [] matcher.kind = "Any" -> AnyFrom(matcher.funcs, 1, bytes, intSize)
    [] matcher.kind = "All" -> AllFrom(matcher.funcs, 1, bytes, intSize)

Compiled(matcher) == [matcher |-> matcher, err |-> Nil]
NotCompiled(err) == [matcher |-> MatchNothing, err |-> err]

\* expressionToMatcher(ex), once the expression is converted
MatcherOf(ex, r) ==
  IF r.err # Nil THEN NotCompiled(wrap(r.err, "invalid expression"))
  ELSE IF r.type # "BOOL"
  THEN NotCompiled(errorsNew("expression is not a boolean expression"))
  ELSE Compiled([kind |-> "expression", ex |-> ex])

\* expressionToMatcher(ex)
expressionToMatcher(ex) == MatcherOf(ex, expressionToEvaluator(ex))

\* expressionsToMatchers(exs), once the expressions are converted in turn:
\* the matchers, or the error of the first that does not compile
MatchersOf(converted) ==
  IF \A i \in DOMAIN converted : converted[i].err = Nil
  THEN [matchers |-> [i \in DOMAIN converted |-> converted[i].matcher], err |-> Nil]
  ELSE [matchers |-> <<>>,
        err |-> wrap(converted[CHOOSE i \in DOMAIN converted :
                                 /\ converted[i].err # Nil
                                 /\ \A j \in 1..(i - 1) : converted[j].err = Nil].err,
                     "unable to sub-expression to matcher")]

\* expressionsToMatchers(exs)
expressionsToMatchers(exs) ==
  MatchersOf([i \in 1..Len(exs) |-> expressionToMatcher(exs[i])])

\* PredicateToMatcher(pred), once the expression is converted
OneMatcher(r) ==
  IF r.err # Nil
  THEN NotCompiled(wrap(r.err, "unable to convert expression to matcher"))
  ELSE r

\* PredicateToMatcher(pred), once the expressions are converted: Any or All
ListMatcher(kind, r) ==
  IF r.err # Nil
  THEN NotCompiled(wrap(r.err, "unable to convert expressions to matchers"))
  ELSE Compiled([kind |-> kind, funcs |-> r.matchers])

\* PredicateToMatcher(pred), for a Predicate
\*   [kind |-> "expression", expression |-> Expression]
\*   [kind |-> "any", expressions |-> sequence of Expression]
\*   [kind |-> "all", expressions |-> sequence of Expression]
PredicateToMatcher(pred) ==
  CASE pred.kind = "expression" -> OneMatcher(expressionToMatcher(pred.expression))
    [] pred.kind = "any" -> ListMatcher("Any", expressionsToMatchers(pred.expressions))
    [] pred.kind = "all" -> ListMatcher("All", expressionsToMatchers(pred.expressions))
    [] OTHER -> NotCompiled(<<"unhandled", "predicate type">>)

\* ---------------------------------------------------------------- records
\* the numbers the fields of a record hold: 25600 is 100 * 256, so that a
\* field read with the wrong byte order reads another of these numbers
FieldValues == {0, 8, 50, 100, 25600}

Fits(type, n) == valueReturnType(type) # "U8" \/ n < 256

\* makeBytes(t, u64le(n)), makeBytes(t, u16be(n)), ...: the bytes of one field
makeBytes(type, n) ==
  IF type \in {"U64BE", "U32BE", "U16BE"}
  THEN Reverse(Uint(valueReturnType(type), n).val)
  ELSE Uint(valueReturnType(type), n).val

\* the fields: one number in one encoding, and a u32 of 2^31
Fields ==
  {makeBytes(type, n) : <<type, n>> \in {tn \in ValueTypes \X FieldValues : Fits(tn[1], tn[2])}}
    \cup {<<0, 0, 0, 128>>}

\* the records: empty, one field, or two fields
Records == {<<>>} \cup Fields \cup {f[1] \o f[2] : f \in Fields \X Fields}

\* the values of a type that an upscaler is tried on
ValuesOf(type) ==
  IF type = "BOOL"
  THEN {Bool(FALSE), Bool(TRUE)}
  ELSE {Uint(type, n) : n \in {v \in FieldValues : type # "U8" \/ v < 256}}

\* ---------------------------------------------------------------- calls on matchers
MatchInit ==
  /\ Init!1 /\ Init!2 /\ Init!3 /\ Init!4 /\ Init!5 /\ Init!6 /\ Init!7 /\ Init!8
  /\ Init!9 /\ Init!10 /\ Init!11 /\ Init!12 /\ Init!13 /\ Init!14 /\ Init!15 /\ Init!16
  /\ record \in Records
  /\ answer = NoAnswer
  /\ file = NoFile
  /\ puts = NoPuts

\* The functions are pure: one call is made on each record.
NotCalled == answer.call = "none"

\* a call on a matcher changes nothing but what it returns
Answer(a) ==
  /\ answer' = a
  /\ UNCHANGED <<pages, cacheLen, numPages, fileLength, disk, opened, dataSize, result,
                 log, last, stored, dupAccepted, handedOut, heldCursor, ret, firstError,
                 record, file, puts>>

\* getUpscaler(typeA, typeB), and the two functions applied to a value of
\* each type; no record is involved
CallGetUpscaler ==
  /\ NotCalled
  /\ record = <<>>
  /\ \E typeA \in ReturnTypes, typeB \in ReturnTypes :
       \E a \in ValuesOf(typeA), b \in ValuesOf(typeB) :
         LET up == getUpscaler(typeA, typeB)
         IN Answer([call |-> "getUpscaler", args |-> <<typeA, typeB, a, b>>,
                    value |-> [type |-> up.type, a |-> Upscale(up.a, a),
                               b |-> Upscale(up.b, b)],
                    err |-> up.err, ran |-> 0])

\* the predicate "ta at 0 op tb at the end of the first field"
Comparison(ta, op, tb) ==
  [kind |-> "expression",
   expression |-> BinaryOperation(ValueAt(Offset(0), ta), op,
                                  ValueAt(Offset(Bytes(valueReturnType(ta))), tb))]

\* the answer of a Match on the record
Ran(call, pred, intSize, r) ==
  Answer([call |-> call, args |-> <<pred>>, value |-> r.value, err |-> r.err,
          ran |-> r.ran, compiled |-> TRUE, intSize |-> intSize])

\* the answer of PredicateToMatcher, and of Match if there is a matcher
Compile(call, pred, intSize, c) ==
  IF c.err # Nil
  THEN Answer([call |-> call, args |-> <<pred>>, value |-> FALSE, err |-> c.err,
               ran |-> 0, compiled |-> FALSE, intSize |-> intSize])
  ELSE Ran(call, pred, intSize, Match(c.matcher, record, intSize))

\* PredicateToMatcher(pred) and then matcher.Match(record)
Run(call, pred, intSize) == Compile(call, pred, intSize, PredicateToMatcher(pred))

\* a comparison of the two fields of a record of two fields; the width of
\* int plays no part in a jump to a literal offset
MatchComparison ==
  /\ NotCalled
  /\ \E ta \in ValueTypes, tb \in ValueTypes, op \in booleanOps :
       /\ Len(record) = Bytes(valueReturnType(ta)) + Bytes(valueReturnType(tb))
       /\ Run("comparison", Comparison(ta, op, tb), 64)

\* the scalars of a predicate: Scalar_Bool, Scalar_U32, Scalar_U64
Scalars == {Scalar(v) : v \in ValuesOf("BOOL") \cup ValuesOf("U32") \cup ValuesOf("U64")}

\* a comparison of the field of a record of one field with a scalar
MatchFieldAndScalar ==
  /\ NotCalled
  /\ \E ta \in ValueTypes, op \in booleanOps, right \in Scalars :
       /\ Len(record) = Bytes(valueReturnType(ta))
       /\ Run("comparison",
              [kind |-> "expression",
               expression |-> BinaryOperation(ValueAt(Offset(0), ta), op, right)], 64)

\* a comparison of two scalars; no record is involved
MatchScalars ==
  /\ NotCalled
  /\ record = <<>>
  /\ \E left \in Scalars, op \in booleanOps, right \in Scalars :
       Run("comparison",
           [kind |-> "expression", expression |-> BinaryOperation(left, op, right)], 64)

\* the operands of the predicates tried: scalars, a field at a literal
\* offset, and fields behind an indirect jump
PredicateOperands ==
  {Scalar(Bool(TRUE)), Scalar(Uint("U32", 50)),
   ValueAt(Offset(0), "U8"),
   ValueAt([kind |-> "u8", offset |-> 0], "U16LE"),
   ValueAt([kind |-> "u32le", offset |-> 0], "U8")}

\* a single operand, or a binary operation with any op-code, the unknown
\* one included, on two operands or on a comparison and an operand
PredicateExpressions ==
  PredicateOperands
    \cup {BinaryOperation(l, op, r) :
            <<l, op, r>> \in PredicateOperands \X BinaryOpCodes \X PredicateOperands}
    \cup {BinaryOperation(BinaryOperation(ValueAt(Offset(0), "U8"), "LESS",
                                          Scalar(Uint("U32", 50))), op, r) :
            <<op, r>> \in BinaryOpCodes \X PredicateOperands}

\* the expressions of an any or all predicate
ListedExpressions ==
  {Scalar(Bool(TRUE)),
   BinaryOperation(ValueAt(Offset(0), "U8"), "EQ", ValueAt(Offset(1), "U8")),
   BinaryOperation(ValueAt(Offset(0), "U8"), "UNKNOWN", Scalar(Uint("U32", 50)))}

Predicates ==
  {[kind |-> "expression", expression |-> e] : e \in PredicateExpressions}
    \cup {[kind |-> k[1], expressions |-> k[2]] :
            k \in {"any", "all"} \X ({<<>>} \cup {<<e>> : e \in ListedExpressions}
                                     \cup (ListedExpressions \X ListedExpressions))}

\* PredicateToMatcher on a predicate, and Match on a record of up to four
\* bytes if it compiles, in a build with either width of int
MatchPredicate ==
  /\ NotCalled
  /\ Len(record) <= 4
  /\ \E pred \in Predicates, intSize \in IntSizes : Run("predicate", pred, intSize)

\* the matchers of a list: the three of the tests, and one that reads the
\* record (true on 50, false on another byte, an error on the empty record)
IsFifty ==
  [kind |-> "expression",
   ex |-> BinaryOperation(ValueAt(Offset(0), "U8"), "EQ", Scalar(Uint("U32", 50)))]
ListedMatchers == {MatchAnything, MatchNothing, matchesErr, IsFifty}
MatcherLists ==
  {<<>>} \cup {<<f>> : f \in ListedMatchers}
         \cup (ListedMatchers \X ListedMatchers)
         \cup (ListedMatchers \X ListedMatchers \X ListedMatchers)

\* Any(funcs...)(record), on a record of at most one byte
MatchAny ==
  /\ NotCalled
  /\ Len(record) <= 1
  /\ \E funcs \in MatcherLists :
       LET r == Match(Any_(funcs), record, 64)
       IN Answer([call |-> "Any", args |-> funcs, value |-> r.value, err |-> r.err,
                  ran |-> r.ran])

\* All(funcs...)(record), on a record of at most one byte
MatchAll ==
  /\ NotCalled
  /\ Len(record) <= 1
  /\ \E funcs \in MatcherLists :
       LET r == Match(All(funcs), record, 64)
       IN Answer([call |-> "All", args |-> funcs, value |-> r.value, err |-> r.err,
                  ran |-> r.ran])

\* the offsets of the jumps tried: the start, inside the first field, and
\* the end of a first field of eight bytes
JumpOffsets == {0, 1, 8}
Jumps == {[kind |-> k[1], offset |-> k[2]] : k \in JumpKinds \X JumpOffsets}

\* the builds in which a jump can differ: int(offset) is taken of a uint32,
\* a uint16 and a uint8, and only a uint32 can exceed a 32-bit int
IntSizesFor(jump) == IF jump.kind \in {"u32le", "u32be"} THEN IntSizes ELSE {64}

\* jumper.Jump(record)
CallJump ==
  /\ NotCalled
  /\ \E jump \in Jumps :
       \E intSize \in IntSizesFor(jump) :
         LET r == Jump(jump, record, intSize)
         IN Answer([call |-> "Jump", args |-> <<jump>>, value |-> r.bytes, err |-> r.err,
                    ran |-> 0, intSize |-> intSize])

\* the evaluator of a Value at a literal offset, on the record
LoadValue ==
  /\ NotCalled
  /\ \E offset \in JumpOffsets, type \in ValueTypes :
       LET r == valueEvaluatorImplWithJump(ValueAt(Offset(offset), type), record, 64)
       IN Answer([call |-> "Load", args |-> <<offset, type>>, value |-> r.val,
                  err |-> r.err, ran |-> 0])

MatchCalls ==
  \/ CallJump
  \/ LoadValue
  \/ CallGetUpscaler
  \/ MatchComparison
  \/ MatchFieldAndScalar
  \/ MatchScalars
  \/ MatchPredicate
  \/ MatchAny
  \/ MatchAll

MatchSpec == MatchInit /\ [][MatchCalls]_vars

\* ---------------------------------------------------------------- C23
\* a op b on two numbers
Compare(op, a, b) ==
  CASE op = "EQ" -> a = b
    [] op = "NEQ" -> a # b
    [] op = "LESS" -> a < b
    [] op = "LESS_EQ" -> a <= b
    [] op = "GREATER" -> a > b
    [] op = "GREATER_EQ" -> a >= b

\* the numbers an operand may hold: those of the fields, and 1 for true
Numbers == FieldValues \cup {1}

\* the number a scalar holds: false is 0, true is 1
ScalarNumber(v) ==
  IF v.type = "BOOL"
  THEN (IF v.val THEN 1 ELSE 0)
  ELSE v.val[1] + 256 * v.val[2]

\* the operand e is the scalar n, or a field of the record that encodes n
Holds(e, n) ==
  IF e.kind = "scalar"
  THEN n = ScalarNumber(e.value)
  ELSE /\ Fits(e.type, n)
       /\ Len(record) >= e.jump.offset + Bytes(valueReturnType(e.type))
       /\ SubSeq(record, e.jump.offset + 1, e.jump.offset + Bytes(valueReturnType(e.type)))
            = makeBytes(e.type, n)

\* C23: a compiled comparison of an operand of one type holding the number
\* a with an operand of another type holding the number b returns, without
\* error, the truth value of the comparison of the numbers a and b, whatever
\* the widths and byte orders of the two operands (false is 0, true is 1).
C23_ComparisonIsNumeric ==
  answer.call = "comparison" =>
    LET ex == answer.args[1].expression
    IN \A a \in Numbers, b \in Numbers :
         (Holds(ex.left, a) /\ Holds(ex.right, b))
         => /\ answer.compiled
            /\ answer.err = Nil
            /\ answer.value = Compare(ex.op, a, b)

\* 'u64le at 0 < u16be at 8' on u64le(100) followed by u16be(50) is false
C23_Witness ==
  /\ record = makeBytes("U64LE", 100) \o makeBytes("U16BE", 50)
  /\ answer.call = "comparison"
  /\ answer.args = <<Comparison("U64LE", "LESS", "U16BE")>>
  /\ answer.err = Nil
  /\ answer.value = FALSE

\* ---------------------------------------------------------------- C24
\* the place of a type in the order bool < u8 < u16 < u32 < u64
Rank(type) == CHOOSE i \in 1..Len(uintTypes) : uintTypes[i] = type

Wider(typeA, typeB) == IF Rank(typeA) >= Rank(typeB) THEN typeA ELSE typeB

\* the number a value holds
NumberOf(v) ==
  IF v.type = "BOOL"
  THEN (IF v.val THEN 1 ELSE 0)
  ELSE v.val[1] + 256 * (IF Len(v.val) > 1 THEN v.val[2] ELSE 0)

\* a value holds no more than 16 bits of its number
Small(v) == v.type = "BOOL" \/ \A i \in 3..Len(v.val) : v.val[i] = 0

\* C24: getUpscaler succeeds for every ordered pair of types; the result
\* type is the wider of the two (bool the narrowest), so the same for (A,B)
\* and (B,A); both values come out in the result type and hold the numbers
\* they held (false 0, true 1); the value of the wider type, and both values
\* of equal types, come out as they went in.
C24_UpscaleToWider ==
  answer.call = "getUpscaler" =>
    LET typeA == answer.args[1]
        typeB == answer.args[2]
        a == answer.args[3]
        b == answer.args[4]
        out == answer.value
    IN /\ answer.err = Nil
       /\ out.type = Wider(typeA, typeB)
       /\ out.type = getUpscaler(typeB, typeA).type
       /\ out.a.type = out.type /\ out.b.type = out.type
       /\ (out.type # "BOOL" =>
             /\ Len(out.a.val) = Bytes(out.type) /\ Len(out.b.val) = Bytes(out.type)
             /\ Small(out.a) /\ Small(out.b))
       /\ NumberOf(out.a) = NumberOf(a) /\ NumberOf(out.b) = NumberOf(b)
       /\ (typeA = out.type => out.a = a)
       /\ (typeB = out.type => out.b = b)

\* a bool and a u16: true became the u16 1 and the u16 25600 stayed
C24_Witness ==
  /\ answer.call = "getUpscaler"
  /\ answer.args = <<"BOOL", "U16", Bool(TRUE), Uint("U16", 25600)>>
  /\ answer.value = [type |-> "U16", a |-> Uint("U16", 1), b |-> Uint("U16", 25600)]
  /\ answer.err = Nil

\* ---------------------------------------------------------------- C25
\* C25: a Match of a predicate that compiled fails only with
\* ErrBytesTooSmall or ErrJumpOffsetOutOfRange at the bottom of its error;
\* in particular a binary operation with another op-code than the six
\* comparisons never fails at Match time with an unhandled operator.
C25_OnlyDataErrors ==
  (answer.call = "predicate" /\ answer.compiled /\ answer.err # Nil)
    => Cause(answer.err) \in {ErrBytesTooSmall, ErrJumpOffsetOutOfRange}

\* ---------------------------------------------------------------- C26
\* what the matchers of the list return on the record, each on its own
Outcomes == [i \in 1..Len(answer.args) |-> Match(answer.args[i], record, 64)]
Trues == {i \in 1..Len(answer.args) : Outcomes[i].err = Nil /\ Outcomes[i].value}
Falses == {i \in 1..Len(answer.args) : Outcomes[i].err = Nil /\ ~Outcomes[i].value}
Errors == {i \in 1..Len(answer.args) : Outcomes[i].err # Nil}
First(S) == CHOOSE i \in S : \A j \in S : i <= j
Before(S, T) == S # {} /\ (T = {} \/ First(S) < First(T))

\* C26: Any is true, without error, when a matcher is true before any
\* matcher fails, and then no matcher after that one is run; it is false,
\* without error, when every matcher is false, the empty list included; it
\* fails, with the error of the matcher wrapped, when a matcher fails before
\* any is true.
C26_Any ==
  answer.call = "Any" =>
    /\ Before(Trues, Errors) =>
         answer.err = Nil /\ answer.value /\ answer.ran = First(Trues)
    /\ (Trues = {} /\ Errors = {}) =>
         answer.err = Nil /\ ~answer.value /\ answer.ran = Len(answer.args)
    /\ Before(Errors, Trues) =>
         /\ answer.err = wrap(Outcomes[First(Errors)].err, "unable to run matcher")
         /\ ~answer.value
         /\ answer.ran = First(Errors)

\* a true matcher between a false one and a failing one: true, and the
\* third was not run
C26_Witness ==
  /\ answer.call = "Any"
  /\ answer.args = <<MatchNothing, IsFifty, matchesErr>>
  /\ record = <<50>>
  /\ answer.value /\ answer.err = Nil /\ answer.ran = 2

\* ---------------------------------------------------------------- C27
\* C27: All is true, without error, exactly when every matcher is true, the
\* empty list included; it fails with the error of the first matcher that
\* fails, wrapped, unless a matcher before that one is false, and then it is
\* false without error.
C27_All ==
  answer.call = "All" =>
    /\ (answer.err = Nil /\ answer.value) <=> (Trues = 1..Len(answer.args))
    /\ Before(Errors, Falses) =>
         /\ answer.err = wrap(Outcomes[First(Errors)].err, "unable to run matcher")
         /\ ~answer.value
         /\ answer.ran = First(Errors)
    /\ Before(Falses, Errors) =>
         answer.err = Nil /\ ~answer.value /\ answer.ran = First(Falses)

\* two true matchers and then a failing one: the error of the third
C27_Witness ==
  /\ answer.call = "All"
  /\ answer.args = <<MatchAnything, IsFifty, matchesErr>>
  /\ record = <<50>>
  /\ ~answer.value
  /\ answer.err = <<"unable to run matcher", ":", "always fails">>
  /\ answer.ran = 3

\* ---------------------------------------------------------------- C28
\* the width in bytes of the address an indirect jump decodes
AddrBytes(kind) ==
  CASE kind \in {"u64le", "u64be"} -> 8
    [] kind \in {"u32le", "u32be"} -> 4
    [] kind \in {"u16le", "u16be"} -> 2
    [] kind = "u8" -> 1

\* the bytes of the address of an indirect jump, least significant first
AddrOf(jump) ==
  LET raw == SubSeq(record, jump.offset + 1, jump.offset + AddrBytes(jump.kind))
  IN IF jump.kind \in {"u64be", "u32be", "u16be"} THEN Reverse(raw) ELSE raw

\* the address is greater than the length of the record
Beyond(addr) ==
  \/ \E i \in 3..Len(addr) : addr[i] # 0
  \/ addr[1] + 256 * (IF Len(addr) > 1 THEN addr[2] ELSE 0) > Len(record)

\* the record from the byte at an offset on
From(n) == SubSeq(record, n + 1, Len(record))

\* C28: on every record, the empty one included: a jump to a literal offset
\* greater than the length of the record fails with ErrJumpOffsetOutOfRange,
\* and so does an indirect jump whose own offset or whose decoded address is
\* greater than the length; an indirect jump with fewer bytes than its
\* address has at its offset, and a load of a value with fewer bytes than
\* the value has at its offset, fail with ErrBytesTooSmall; every other jump
\* returns the record from the offset, or from the decoded address, counted
\* from the start of the record, and every other load succeeds.
C28_JumpsStayInside ==
  /\ answer.call = "Jump" =>
       LET jump == answer.args[1]
       IN CASE jump.offset > Len(record) ->
                 Cause(answer.err) = ErrJumpOffsetOutOfRange
            [] jump.offset <= Len(record) /\ jump.kind = "offset" ->
                 answer.err = Nil /\ answer.value = From(jump.offset)
            [] jump.offset <= Len(record) /\ jump.kind # "offset"
                 /\ Len(record) - jump.offset < AddrBytes(jump.kind) ->
                 Cause(answer.err) = ErrBytesTooSmall
            [] OTHER ->
                 IF Beyond(AddrOf(jump))
                 THEN Cause(answer.err) = ErrJumpOffsetOutOfRange
                 ELSE /\ answer.err = Nil
                      /\ answer.value = From(AddrOf(jump)[1])
  /\ answer.call = "Load" =>
       LET offset == answer.args[1]
           size == Bytes(valueReturnType(answer.args[2]))
       IN CASE offset > Len(record) -> Cause(answer.err) = ErrJumpOffsetOutOfRange
            [] offset <= Len(record) /\ Len(record) - offset < size ->
                 Cause(answer.err) = ErrBytesTooSmall
            [] OTHER -> answer.err = Nil

\* ================================================================ the key-value File
\* ---------------------------------------------------------------- layout
\* The file is memory: offset -> what is stored there, 0 where nothing was
\* written.  A byte of a key or of a value is stored at its offset, and a
\* field of binqHeader or of binqEntry (a uintptr, 8 bytes) at the offset of
\* the field.  Values are far shorter than a key array, so that a write of
\* a value that runs past its slot reaches bytes of keys and never a field.
MaxKeySize == 256
binqHeaderSize == 152
binqEntrySize == 288
growBuffer == 10 * (binqEntrySize + 1024)
magic == 1364084034
version == 1

\* the offsets of the fields of binqHeader
magicAt == 0
versionAt == 4
eodAt == 8
headEntryAt == 16

\* the offsets of the fields of binqEntry after key [MaxKeySize]byte
keyLenAt == MaxKeySize
nextAt == MaxKeySize + 8
dataPtrAt == MaxKeySize + 16
dataLenAt == MaxKeySize + 24

ErrNotFound == errorsNew("not found")

\* multiError(msg, errs...)
multiError(msg, errs) ==
  LET nonNilErrors == SelectSeq(errs, LAMBDA e : e # Nil)
  IN CASE Len(nonNilErrors) = 0 -> Nil
       [] Len(nonNilErrors) = 1 -> <<msg, ":">> \o nonNilErrors[1]
       [] Len(nonNilErrors) = 2 ->
            <<msg, "(multiple errors)", ":">> \o nonNilErrors[1] \o <<",">> \o nonNilErrors[2]
       [] OTHER ->
            <<msg, "(multiple errors)", ":">> \o nonNilErrors[1] \o <<",">>
              \o nonNilErrors[2] \o <<",">> \o nonNilErrors[3]

\* what is stored at an offset
At(mem, offset) == IF offset \in DOMAIN mem THEN mem[offset] ELSE 0

\* a store of one field
Store(mem, offset, v) == (offset :> v) @@ mem

\* b.file.BytesAt(offset, n)
BytesAt(mem, offset, n) == [i \in 1..n |-> At(mem, offset + i - 1)]

\* putData(offset, value): copy(valueBuf, value)
putData(mem, offset, value) ==
  [o \in offset..(offset + Len(value) - 1) |-> value[o - offset + 1]] @@ mem

\* putEntry(offset, key, valuePtr, valueLen, next): copy writes len(key)
\* bytes of the key array
putEntry(mem, offset, key, valuePtr, valueLen, next) ==
  Store(Store(Store(Store(putData(mem, offset, key),
                          offset + keyLenAt, Len(key)),
                    offset + dataPtrAt, valuePtr),
              offset + dataLenAt, valueLen),
        offset + nextAt, next)

\* bytes.Compare(a, b): -1, 0 or 1
BytesCompare(a, b) ==
  LET differ == {i \in 1..Len(a) : i > Len(b) \/ a[i] # b[i]}
      first == CHOOSE i \in differ : \A j \in differ : i <= j
  IN CASE differ = {} /\ Len(a) = Len(b) -> 0
       [] differ = {} /\ Len(a) < Len(b) -> -1
       [] differ # {} /\ first > Len(b) -> 1
       [] differ # {} /\ first <= Len(b) /\ a[first] < b[first] -> -1
       [] OTHER -> 1

\* entry.key[:entry.keyLen] of the entry at ptr
entryKey(mem, ptr) == BytesAt(mem, ptr, At(mem, ptr + keyLenAt))

\* ---------------------------------------------------------------- Open
\* the outcome of a call on the file: the file afterwards and the error
Filed(f, err) == [file |-> f, err |-> err]

\* Open(path) of the file whose content is mem: mfile.Open maps at least
\* binqHeaderSize+growBuffer bytes; a file with magic 0 is taken as new
binqOpen(mem, openErr) ==
  IF openErr # Nil THEN Filed(NoFile, wrap(openErr, "unable to open binq file"))
  ELSE IF At(mem, magicAt) = 0
    THEN Filed([open |-> TRUE, len |-> binqHeaderSize + growBuffer,
                mem |-> Store(Store(Store(mem, magicAt, magic), versionAt, version),
                              eodAt, binqHeaderSize + 1)], Nil)
  ELSE IF At(mem, magicAt) # magic
    THEN Filed(NoFile, errorsNew("invalid file: mismatched magic number"))
  ELSE Filed([open |-> TRUE, len |-> binqHeaderSize + growBuffer, mem |-> mem], Nil)

\* ---------------------------------------------------------------- ensureSpace
ensureSpace(f, n, resizeErr) ==
  LET free == f.len - At(f.mem, eodAt)
  IN IF free >= n THEN Filed(f, Nil)
     ELSE IF resizeErr # Nil THEN Filed(f, wrap(resizeErr, "unable to grow file"))
     ELSE Filed([f EXCEPT !.len = binqHeaderSize + At(f.mem, eodAt) + n + growBuffer], Nil)

\* ---------------------------------------------------------------- findParent
\* what findParent returns: the entry (0 is the nil entry) and equalKey
Parent(ptr, equalKey) == [ptr |-> ptr, equalKey |-> equalKey]

RECURSIVE findParentFrom(_, _, _, _)
\* the loop of findParent: ptr is the entry looked at, parentPtr the candidate
findParentFrom(mem, key, ptr, parentPtr) ==
  IF ptr = 0 THEN Parent(parentPtr, FALSE)
  ELSE LET cmp == BytesCompare(key, entryKey(mem, ptr))
       IN IF cmp = 0 THEN Parent(ptr, TRUE)
          ELSE IF cmp < 0 THEN Parent(parentPtr, FALSE)
          ELSE findParentFrom(mem, key, At(mem, ptr + nextAt), ptr)

findParent(mem, key) == findParentFrom(mem, key, At(mem, headEntryAt), 0)

\* ---------------------------------------------------------------- Put
\* the part of Put that overwrites the value of the entry at prevEntryPtr
PutEqualKey(f, prevEntryPtr, value, syncs) ==
  LET valueLen == Len(value)
      valuePtr == IF At(f.mem, prevEntryPtr + dataLenAt) <= valueLen
                    THEN At(f.mem, prevEntryPtr + dataPtrAt)
                    ELSE At(f.mem, eodAt) + 1
      written == putData(f.mem, valuePtr, value)
      entered == Store(Store(written, prevEntryPtr + dataPtrAt, valuePtr),
                       prevEntryPtr + dataLenAt, valueLen)
  IN Filed([f EXCEPT !.mem = entered],
           multiError("error syncing value", <<syncs[1], syncs[2]>>))

\* the part of Put that appends a new entry after the entry at prevEntryPtr
PutNewKey(f, prevEntryPtr, key, value, syncs) ==
  LET valueLen == Len(value)
      nextEntryPtr == IF prevEntryPtr # 0 THEN At(f.mem, prevEntryPtr + nextAt) ELSE 0
      entryPtr == At(f.mem, eodAt) + 1
      valuePtr == At(f.mem, eodAt) + 1 + binqEntrySize
      valueEnd == valuePtr + valueLen
      written == putData(putEntry(f.mem, entryPtr, key, valuePtr, valueLen, nextEntryPtr),
                         valuePtr, value)
      linked == IF prevEntryPtr = 0 THEN Store(written, headEntryAt, entryPtr)
                ELSE Store(written, prevEntryPtr + nextAt, entryPtr)
      prevEntrySyncErr == IF prevEntryPtr = 0 THEN Nil ELSE syncs[2]
  IN Filed([f EXCEPT !.mem = Store(linked, eodAt, valueEnd)],
           multiError("failed to sync data", <<syncs[1], prevEntrySyncErr, syncs[3]>>))

\* Put(ctx, key, value); syncs are the outcomes of the SyncRange calls and
\* resizeErr the outcome of a Resize, where the call makes them
Put(f, key, value, syncs, resizeErr) ==
  IF Len(key) > MaxKeySize THEN Filed(f, errorsNew("key too large"))
  ELSE LET space == ensureSpace(f, binqEntrySize + Len(value), resizeErr)
           parent == findParent(space.file.mem, key)
       IN IF space.err # Nil THEN space
          ELSE IF parent.equalKey THEN PutEqualKey(space.file, parent.ptr, value, syncs)
          ELSE PutNewKey(space.file, parent.ptr, key, value, syncs)

\* ---------------------------------------------------------------- Get
\* what Get returns
Gotten(value, err) == [value |-> value, err |-> err]

RECURSIVE GetFrom(_, _, _)
\* the loop of Get
GetFrom(mem, key, ptr) ==
  IF ptr = 0 THEN Gotten(<<>>, ErrNotFound)
  ELSE LET cmp == BytesCompare(entryKey(mem, ptr), key)
       IN IF cmp = 0
            THEN Gotten(BytesAt(mem, At(mem, ptr + dataPtrAt), At(mem, ptr + dataLenAt)), Nil)
          ELSE IF cmp > 0 THEN Gotten(<<>>, ErrNotFound)
          ELSE GetFrom(mem, key, At(mem, ptr + nextAt))

Get(f, key) == GetFrom(f.mem, key, At(f.mem, headEntryAt))

\* ---------------------------------------------------------------- the calls
MaxPuts == 3

\* the keys and the values of the calls: values of three lengths
PutKeys == {<<1>>, <<2>>, <<2, 1>>}
PutValues == {<<7>>, <<8, 8>>, <<9, 9, 9>>}
TooLargeKey == [i \in 1..(MaxKeySize + 1) |-> 1]

\* the outcomes of the SyncRange calls of one Put: all succeed, one fails, or
\* the first two fail
EIO == errorsNew("input/output error")
SyncOutcomes == {<<Nil, Nil, Nil>>, <<EIO, Nil, Nil>>, <<Nil, EIO, Nil>>, <<Nil, Nil, EIO>>,
                 <<EIO, EIO, Nil>>}

\* the files Open is called on: a new one, and one that is no binq file
NewFile == <<>>
OtherFile == (magicAt :> 255)

\* the program opens a file
FileOpen ==
  /\ ~file.open
  /\ puts.call = "none"
  /\ \E mem \in {NewFile, OtherFile} : \E openErr \in {Nil, EIO} :
       LET o == binqOpen(mem, openErr)
       IN /\ file' = o.file
          /\ puts' = [puts EXCEPT !.call = "Open", !.err = o.err]
  /\ UNCHANGED <<pages, cacheLen, numPages, fileLength, disk, opened, dataSize, result,
                 log, last, stored, dupAccepted, handedOut, heldCursor, ret, firstError,
                 record, answer>>

\* the program puts a value under a key
FilePut ==
  /\ file.open
  /\ puts.n < MaxPuts
  /\ \E key \in PutKeys \cup {TooLargeKey} : \E value \in PutValues :
     \E syncs \in SyncOutcomes :
       LET p == Put(file, key, value, syncs, Nil)
       IN /\ file' = p.file
          /\ puts' = [n |-> puts.n + 1,
                      latest |-> IF p.err = Nil THEN (key :> value) @@ puts.latest
                                 ELSE puts.latest,
                      failed |-> puts.failed \/ p.err # Nil,
                      call |-> "Put", key |-> key, value |-> value, err |-> p.err]
  /\ UNCHANGED <<pages, cacheLen, numPages, fileLength, disk, opened, dataSize, result,
                 log, last, stored, dupAccepted, handedOut, heldCursor, ret, firstError,
                 record, answer>>

\* the program gets the value of a key
FileGet ==
  /\ file.open
  /\ puts.call # "Get"
  /\ \E key \in PutKeys :
       LET g == Get(file, key)
       IN puts' = [puts EXCEPT !.call = "Get", !.key = key, !.value = g.value,
                               !.err = g.err]
  /\ UNCHANGED <<pages, cacheLen, numPages, fileLength, disk, opened, dataSize, result,
                 log, last, stored, dupAccepted, handedOut, heldCursor, ret, firstError,
                 record, answer, file>>

FileCalls == FileOpen \/ FilePut \/ FileGet

FileSpec == Init /\ [][FileCalls]_vars

\* C29: after successful Puts only, Get(k) returns the value of the most
\* recent Put(k, .) of every key that was put, whatever was overwritten or
\* added since, and ErrNotFound for a key that was never put.
C29_GetReturnsLatestPut ==
  (puts.call = "Get" /\ ~puts.failed) =>
    IF puts.key \in DOMAIN puts.latest
      THEN puts.err = Nil /\ puts.value = puts.latest[puts.key]
      ELSE puts.err = ErrNotFound

\* ================================================================ the table, again
\* C30: after successful inserts, every key inserted at any earlier point,
\* not only the most recent one, is still found: Find(k) and Value() return
\* k with the value it was inserted with, whatever leaf, branch or root
\* splits happened since.
C30_EveryKeyStillFound ==
  DistinctInserts =>
    \A k \in DOMAIN stored : Lookup(k) = [key |-> k, value |-> stored[k]]

\* ---------------------------------------------------------------- the calls of an Insert
\* the calls of op the last Insert made
CallsOf(op) == {i \in 1..Len(last.calls) : last.calls[i].op = op}

\* the cells of n with a new cell at pos, the cells from pos on one place up
CellsWith(n, pos, cell) ==
  [j \in 0..BranchMaxCells |->
     IF j >= n.numCells + 1 THEN n.cells[j]
     ELSE IF j < pos THEN n.cells[j]
     ELSE IF j = pos THEN cell
     ELSE n.cells[j - 1]]

\* the sorted position of key among the first numCells cells of n
SortedPosition(n, key) == Cardinality({j \in 0..(n.numCells - 1) : n.cells[j].key < key})

\* the parent an insert of child with newMax is to leave, given the max key
\* oldMax of its right child
RoomInserted(n, child, oldMax, newMax) ==
  IF newMax > oldMax
  THEN [n EXCEPT !.cells[n.numCells] = [child |-> n.link, key |-> oldMax],
                 !.link = child, !.numCells = n.numCells + 1]
  ELSE [n EXCEPT !.cells = CellsWith(n, SortedPosition(n, newMax),
                                     [child |-> child, key |-> newMax]),
                 !.numCells = n.numCells + 1]

\* C31: when a new child is inserted into a parent branch that has room (the
\* root included) and the child's max key exceeds the max key of the parent's
\* right child, then on return the former rightChild is the parent's last
\* cell, with the former right child's max key, and the new child is the
\* rightChild; otherwise the new child is a cell (newChildMax, newChild) at
\* the sorted position and rightChild is unchanged.
C31_RoomInsertPlacesChild ==
  Completed =>
    \A i \in CallsOf("insert") :
      LET c == last.calls[i]
          n == c.before[c.pageNum]
          after == c.after[c.pageNum]
          want == RoomInserted(n, c.child, c.oldMax, c.newMax)
      IN /\ after.numCells = want.numCells
         /\ after.link = want.link
         /\ \A j \in 0..(want.numCells - 1) : after.cells[j] = want.cells[j]

\* the branch cells <<page, index>> whose key differs between two page tables
ChangedKeys(before, after) ==
  {c \in (DOMAIN before) \X (0..(BranchMaxCells - 1)) :
     /\ ~before[c[1]].isLeaf
     /\ c[2] < before[c[1]].numCells
     /\ after[c[1]].cells[c[2]].key # before[c[1]].cells[c[2]].key}

\* the cells <<page, index>> holding exactly key in the first branch that has
\* one, from pageNum up the parent pointers to the root
RECURSIVE Owners(_, _, _, _)
Owners(pgs, pageNum, key, depth) ==
  LET here == {c \in {pageNum} \X (0..(BranchMaxCells - 1)) :
                 c[2] < pgs[pageNum].numCells /\ pgs[pageNum].cells[c[2]].key = key}
  IN IF here # {} THEN here
     ELSE IF pgs[pageNum].isRoot \/ depth > MaxDepth THEN {}
     ELSE Owners(pgs, pgs[pageNum].parentPointer, key, depth + 1)

\* the page table with the key of cell c set
WithKey(pgs, c, key) == [pgs EXCEPT ![c[1]].cells[c[2]].key = key]

\* C32: updateMaximum(parent, oldKey, newKey) changes at most one branch cell
\* key in the whole tree, and only a cell whose key was exactly oldKey, in the
\* first branch from parent upwards that holds oldKey; nothing else in the
\* pages changes, and when the root is reached without a cell holding oldKey
\* no key is changed (in every Insert of a table of distinct keys).
C32_UpdateMaximumChangesOwner ==
  DistinctInserts =>
    \A i \in CallsOf("updateMaximum") :
      LET c == last.calls[i]
          changed == ChangedKeys(c.before, c.after)
          owners == Owners(c.before, c.pageNum, c.oldMax, 0)
      IN /\ Cardinality(changed) <= 1
         /\ changed \subseteq owners
         /\ \A k \in changed : c.before[k[1]].cells[k[2]].key = c.oldMax
         /\ owners = {} => c.after = c.before
         /\ \A k \in changed : c.after = WithKey(c.before, k, c.newMax)

\* the children of a branch, in order: its cells' children, then rightChild
ChildrenOf(n) == [j \in 1..(n.numCells + 1) |->
                    IF j <= n.numCells THEN n.cells[j - 1].child ELSE n.link]

\* the maximum key stored under page p: the last key of its rightmost leaf
RECURSIVE MaxKeyUnder(_, _, _)
MaxKeyUnder(pgs, p, depth) ==
  IF p \notin DOMAIN pgs \/ depth > MaxDepth THEN PanicKey
  ELSE IF pgs[p].isLeaf THEN leafGetMaxKey(pgs[p])
  ELSE MaxKeyUnder(pgs, pgs[p].link, depth + 1)

\* the two branches a split of the branch of call c left: the old branch (its
\* copy on a new page when the root was split) and the new one
LeftHalf(c) ==
  IF c.before[c.pageNum].isRoot THEN c.after[c.newPage + 1] ELSE c.after[c.pageNum]
RightHalf(c) == c.after[c.newPage]
SplitChildren(c) == ChildrenOf(LeftHalf(c)) \o ChildrenOf(RightHalf(c))

\* C33: an Insert that finds the parent branch full splits that branch
\* (recursively, up to a split of the root branch) instead of failing, and
\* the split loses and duplicates no child: the children of the two branches
\* it leaves are exactly the old branch's children and the new child, each
\* once, in the order of their maximum keys.
C33_SplitKeepsChildren ==
  (opened /\ ~dupAccepted) =>
    /\ Cardinality(CallsOf("split")) = Cardinality(CallsOf("splitting"))
    /\ \A i \in CallsOf("split") :
         LET c == last.calls[i]
             kids == SplitChildren(c)
             was == ChildrenOf(c.before[c.pageNum])
         IN /\ Len(kids) = Len(was) + 1
            /\ {kids[j] : j \in 1..Len(kids)} = {was[j] : j \in 1..Len(was)} \cup {c.child}
            /\ \A j \in 1..(Len(kids) - 1) :
                 MaxKeyUnder(c.after, kids[j], 0) < MaxKeyUnder(c.after, kids[j + 1], 0)

\* the cursors a caller obtains from Start and from Find
Obtained == {Start(pages)} \cup {Find(pages, k) : k \in FindKeys}

\* C34: whenever a cursor obtained from Start or Find reports End() = false,
\* its cellNum is less than the numCells of the leaf it points at, so Value()
\* returns a record that is stored in the tree and never bytes beyond the
\* leaf's last cell.
C34_CursorOnStoredCell ==
  Completed =>
    \A c \in Obtained :
      (c.ok /\ ~End(c)) =>
        /\ c.cellNum < pages[c.pageNum].numCells
        /\ Value(pages, c) \in
             {pages[c.pageNum].cellData[i] : i \in 0..(pages[c.pageNum].numCells - 1)}

\* ---------------------------------------------------------------- the shape of the tree
\* the slots <<branch, index>> that refer to page p: a cell's child or, at
\* index numCells, the rightChild
Referrers(p) ==
  {r \in Branches \X (0..BranchMaxCells) :
     /\ r[2] <= pages[r[1]].numCells
     /\ getChildPage(pages[r[1]], r[2]) = p}

\* the pages under page p, p included, by the child pointers
RECURSIVE PagesUnder(_, _)
PagesUnder(p, depth) ==
  IF p \notin DOMAIN pages \/ depth > MaxDepth THEN {}
  ELSE IF pages[p].isLeaf THEN {p}
  ELSE {p} \cup UNION {PagesUnder(c, depth + 1) : c \in Children(p)}

\* the branches on the way from page p up to the root, by the child pointers
RECURSIVE AncestorsOf(_, _)
AncestorsOf(p, depth) ==
  IF depth > MaxDepth THEN {}
  ELSE LET up == {r[1] : r \in Referrers(p)}
       IN up \cup UNION {AncestorsOf(b, depth + 1) : b \in up}

\* C36: in every state reached by successful inserts the child pointers from
\* page 0 form a tree: every page other than page 0 is referenced by exactly
\* one cell-child or rightChild slot, no branch references page 0 or one of
\* its own ancestors, and every allocated page is reachable from page 0; so
\* the descent of Find ends at a leaf for every key.
C36_ChildPointersFormTree ==
  Completed =>
    /\ \A p \in (0..(numPages - 1)) \ {0} : Cardinality(Referrers(p)) = 1
    /\ Referrers(0) = {}
    /\ \A b \in Branches : Children(b) \cap ({b} \cup AncestorsOf(b, 0)) = {}
    /\ PagesUnder(0, 0) = 0..(numPages - 1)
    /\ \A k \in FindKeys : Find(pages, k).ok /\ pages[Find(pages, k).pageNum].isLeaf

\* a tree of three levels has been built
C36_Witness ==
  /\ Completed
  /\ last.key \in DOMAIN stored
  /\ \E b \in Branches : b # 0 /\ 0 \in AncestorsOf(b, 0)
  /\ \E p \in Leaves : Cardinality(AncestorsOf(p, 0)) = 2

\* ---------------------------------------------------------------- an Insert into a leaf with room
\* the pages the operation flushed
Flushed(events) == {events[i][2] : i \in {j \in 1..Len(events) : events[j][1] = "flush"}}

\* the leaf the key of the Insert just made was looked up in, before it
TargetLeaf == Find(pages, last'.key).pageNum

\* the step is a successful Insert into a leaf with free space
DirectInsert ==
  /\ opened
  /\ result' = "ok"
  /\ Find(pages, last'.key).ok
  /\ pages[TargetLeaf].numCells < leafGetMaxNumCells

\* C37: an Insert that lands in a leaf with free space modifies exactly that
\* one leaf page: no other page changes, in the cache or in the file, no page
\* is allocated (numPages is unchanged) and only that page is flushed; and
\* numPages never decreases, whatever the operation.
C37_DirectInsertTouchesOneLeaf ==
  [][/\ numPages' >= numPages
     /\ DirectInsert =>
          /\ DOMAIN pages' = DOMAIN pages
          /\ \A p \in DOMAIN pages \ {TargetLeaf} : pages'[p] = pages[p]
          /\ pages'[TargetLeaf] # pages[TargetLeaf]
          /\ DOMAIN disk' = DOMAIN disk
          /\ \A p \in DOMAIN disk \ {TargetLeaf} : disk'[p] = disk[p]
          /\ numPages' = numPages
          /\ cacheLen' = cacheLen
          /\ Flushed(log') = {TargetLeaf}]_vars

\* an Insert went into a leaf with room that is not the root page
C37_Witness ==
  /\ Completed
  /\ result = "ok"
  /\ numPages > 1
  /\ Len(last.calls) = 1
  /\ last.calls[1].op = "leafInsertDirect"
  /\ last.calls[1].pageNum # 0
  /\ last.calls[1].numCells < last.calls[1].maxCells
  /\ Flushed(log) = {last.calls[1].pageNum}

\* ---------------------------------------------------------------- the height of the tree
\* the depths below page p, itself at depth, of the leaves under it
RECURSIVE LeafDepths(_, _, _)
LeafDepths(pgs, p, depth) ==
  IF p \notin DOMAIN pgs \/ depth > MaxDepth THEN {MaxDepth + 1}
  ELSE IF pgs[p].isLeaf THEN {depth}
  ELSE UNION {LeafDepths(pgs, getChildPage(pgs[p], j), depth + 1) :
                j \in 0..pgs[p].numCells}

\* the depth of the leftmost leaf
RECURSIVE Height(_, _, _)
Height(pgs, p, depth) ==
  IF p \notin DOMAIN pgs \/ depth > MaxDepth THEN MaxDepth + 1
  ELSE IF pgs[p].isLeaf THEN depth
  ELSE Height(pgs, getChildPage(pgs[p], 0), depth + 1)

\* the step split the root: the root leaf became a branch, or the Insert
\* split the branch on page 0
RootSplit ==
  \/ pages[0].isLeaf /\ ~pages'[0].isLeaf
  \/ \E i \in 1..Len(last'.calls) :
       last'.calls[i].op = "split" /\ last'.calls[i].pageNum = 0

\* C38: after every completed Insert all leaves are at the same depth below
\* page 0; the height of the tree changes only by a root split, which
\* increases the depth of every leaf by exactly one.
C38_LeavesAtOneDepth ==
  [][(opened /\ result' # "panic") =>
       /\ LeafDepths(pages', 0, 0) = {Height(pages', 0, 0)}
       /\ Height(pages', 0, 0) # Height(pages, 0, 0) => RootSplit
       /\ RootSplit => Height(pages', 0, 0) = Height(pages, 0, 0) + 1]_vars

\* the root branch has been split: the leaves are two levels below page 0
C38_Witness ==
  /\ Completed
  /\ LeafDepths(pages, 0, 0) = {2}
  /\ \E i \in CallsOf("split") : last.calls[i].pageNum = 0

\* ---------------------------------------------------------------- leaves of one cell
\* Open(pager, dataSize) with a dataSize so large that a leaf holds one cell
OpenSingle ==
  /\ ~opened
  /\ Commit(OpenTable(Machine))
  /\ opened' = TRUE
  /\ dataSize' = DataSizeFor(1)
  /\ UNCHANGED <<last, stored, dupAccepted, heldCursor, ret, firstError>>

SingleNext == OpenSingle \/ InsertNew \/ InsertAgain

SingleSpec == Init /\ [][SingleNext]_vars

\* ---------------------------------------------------------------- an Insert whose flush fails
\* The flushes of one Insert, one of them failing: its write or its
\* SyncFileRange returns EIO; the flushes before it succeed.
FlushFails == [fails : {"write", "sync"}, errno : WriteErrnos]
FailPlans ==
  UNION {{<<bad>>, <<OkIO, bad>>, <<OkIO, OkIO, bad>>, <<OkIO, OkIO, OkIO, bad>>} :
           bad \in FlushFails}

\* an Insert of a new key, while no Insert has returned a pager error
InsertBefore ==
  /\ result # "error"
  /\ InsertNew

\* an Insert of a new key that returns the error of a failed flush
InsertFailing ==
  /\ opened
  /\ result \notin {"panic", "error"}
  /\ numPages < MaxPages
  /\ \E key \in Keys \ DOMAIN stored, io \in FailPlans :
       LET m == Execute(MachineWith(io), key, NewValue(key), dataSize)
       IN /\ m.err = "error"
          /\ Commit(m)
          /\ last' = [key |-> key, value |-> NewValue(key), wasStored |-> FALSE,
                      calls |-> m.calls]
  /\ UNCHANGED <<opened, dataSize, stored, dupAccepted, heldCursor, ret, firstError>>

FailNext == Open \/ InsertBefore \/ InsertFailing

FailSpec == Init /\ [][FailNext]_vars

\* the step is an Insert that split a full leaf and returned a pager error
FailedSplit ==
  /\ opened
  /\ result' = "error"
  /\ pages[TargetLeaf].numCells = leafGetMaxNumCells

\* the pages the Insert of the step leaves when no system call fails
PostInsert == Execute(Machine, last'.key, last'.value, dataSize).pages

\* C35: if an Insert returns an error because a pager operation failed
\* part-way through a split, the tree in memory is either the complete tree
\* from before the Insert or the complete tree of the finished Insert, and
\* every key that was stored and found before is still found by Find and by
\* a traversal from Start.
C35_FailedSplitIsAtomic ==
  [][FailedSplit =>
       /\ pages' = pages \/ pages' = PostInsert
       /\ \A k \in DOMAIN stored :
            Lookup(k) = [key |-> k, value |-> stored[k]] =>
              Value(pages', Find(pages', k)) = [key |-> k, value |-> stored[k]]
       /\ \A k \in DOMAIN stored :
            (\E i \in 1..Len(Scan) : Scan[i].key = k) =>
              \E i \in 1..Len(scanFrom(pages', Start(pages'), 0)) :
                scanFrom(pages', Start(pages'), 0)[i].key = k]_vars

\* ---------------------------------------------------------------- assertions
\* C39: every call of insertAfterSplit is made with oldMax > newMax (the
\* maximum of the split node strictly decreased), after a leaf split and after
\* a branch split alike, so its assertion never fires; the leaves hold one
\* cell here, the smallest capacity.
C39_SplitLowersMaximum ==
  opened =>
    \A i \in CallsOf("insertAfterSplit") :
      last.calls[i].oldMax > last.calls[i].newMax

\* the calls of insertDirect, of a leaf or of a branch
DirectCalls == CallsOf("leafInsertDirect") \cup CallsOf("branchInsertDirect")

\* C40: every insertDirect call, of a leaf or of a branch, is made on a node
\* with numCells < maxCells, and after every completed Insert each leaf holds
\* between 1 and maxCells cells (0 only for the empty root leaf) and each
\* branch between 1 and its maximum number of cells.
C40_CellCountsInRange ==
  Completed =>
    /\ \A i \in DirectCalls : last.calls[i].numCells < last.calls[i].maxCells
    /\ \A p \in Leaves :
         /\ pages[p].numCells <= leafGetMaxNumCells
         /\ pages[p].numCells = 0 => (p = 0 /\ pages[p].isRoot /\ stored = <<>>)
    /\ \A p \in Branches :
         pages[p].numCells >= 1 /\ pages[p].numCells <= BranchMaxCells

\* an Insert called insertDirect on a leaf and on a branch, and left a full
\* leaf and a full branch
C40_Witness ==
  /\ Completed
  /\ CallsOf("leafInsertDirect") # {}
  /\ CallsOf("branchInsertDirect") # {}
  /\ \E p \in Leaves : pages[p].numCells = leafGetMaxNumCells
  /\ \E p \in Branches : pages[p].numCells = BranchMaxCells

====
